---- MODULE Spec2Model ----
(***************************************************************************)
(* Region store (SuperpixelImage) of the superpixel merge engine: parse of *)
(* a label image, the adjacency table, the edge-weight cache and the merge *)
(* operator mergeEdge, as written in superpixels/MergeSuperpixelImage.cpp. *)
(***************************************************************************)
EXTENDS Integers, Sequences, FiniteSets, TLC

(* ------------------------------ bounds --------------------------------- *)

\* image height (tags.rows) and width (tags.cols) of the label images tried
Rows == 2
Cols == 3
\* the input labels tried are 0..MaxLabel, 255 (carry into the second byte)
\* and the reserved label
MaxLabel == 1
\* cached edge weights are drawn from 1..MaxWeight
MaxWeight == 1
\* at most MaxCached weights are held in the cache at a time
MaxCached == 2

(* --------------------------- program constants ------------------------- *)

ReservedTag == 16777215
NULL == 0

(* ------------------------------- state --------------------------------- *)

VARIABLES
  tags,                \* the label image handed to parse (rewritten in place)
  tagToSuperpixelMap,  \* tag -> Superpixel (tag, coords, weight histories)
  superpixels,         \* vector of the tags of the store
  neighbors,           \* edgeTable: tag -> vector of neighbor tags
  edgeStrengthMap,     \* edgeTable.edgeStrengthMap: edge -> cached weight
  pc,                  \* "new", "parsed", "failed" (parse returned false),
                       \* "aborted" (an assert ended the process)
  lastOp,              \* the last operation with the locals it computed
  locked,              \* the tags a traversal has locked (keys of its locked table)
  histWeights,         \* mergeAlikeSuperpixels: tag -> the weights it merged at
  strategy             \* the traversal under way, where it stands and its locals

vars == <<tags, tagToSuperpixelMap, superpixels, neighbors, edgeStrengthMap, pc, lastOp,
          locked, histWeights, strategy>>

storeVars == <<tags, tagToSuperpixelMap, superpixels, neighbors, edgeStrengthMap, pc>>

strategyVars == <<locked, histWeights, strategy>>

(* ------------------------------ helpers -------------------------------- *)

Range(s) == {s[i] : i \in 1..Len(s)}

Contains(vec, t) == \E i \in 1..Len(vec) : vec[i] = t

RemoveAt(vec, i) == [k \in 1..(Len(vec) - 1) |-> IF k < i THEN vec[k] ELSE vec[k + 1]]

Erase(m, key) == [k \in (DOMAIN m) \ {key} |-> m[k]]

\* Vec3BToUID: (R << 16) | (G << 8) | B of three bytes
Vec3BToUID(tagVec) == tagVec[3] * 65536 + tagVec[2] * 256 + tagVec[1]

\* the three bytes parse writes back for a tag
TagToVec3b(tag) == <<tag % 256, (tag \div 256) % 256, (tag \div 65536) % 256>>

Coords == (0..(Cols - 1)) \X (0..(Rows - 1))

\* the scan order of the two parse loops: y outer, x inner; a coord is <<x, y>>
PixelOrder == [i \in 1..(Rows * Cols) |-> <<(i - 1) % Cols, (i - 1) \div Cols>>]

InputLabels == (0..MaxLabel) \cup {255, ReservedTag}

InputImages == [Coords -> {TagToVec3b(l) : l \in InputLabels}]

NewSuperpixel(tag) ==
  [tag |-> tag, coords |-> <<>>, mergedEdgeWeights |-> <<>>, unmergedEdgeWeights |-> <<>>]

\* a Superpixel* is modelled by the tag of the object it points to
GetSuperpixelPtr(map, uid) == IF uid \in DOMAIN map THEN uid ELSE NULL

getSuperpixelPtr(uid) == GetSuperpixelPtr(tagToSuperpixelMap, uid)

\* an edge is an unordered pair of tags
SuperpixelEdge(a, b) == {a, b}

GetNeighbors(nbrs, tag) == IF tag \in DOMAIN nbrs THEN nbrs[tag] ELSE <<>>

SetNeighbors(nbrs, tag, vec) == [t \in (DOMAIN nbrs) \cup {tag} |-> IF t = tag THEN vec ELSE nbrs[t]]

RemoveNeighbors(nbrs, tag) == [t \in (DOMAIN nbrs) \ {tag} |-> nbrs[t]]

\* std::sort of a vector of distinct ints: the ascending sequence of its values
RECURSIVE SortAscending(_)
SortAscending(S) ==
  IF S = {} THEN <<>>
  ELSE LET m == CHOOSE t \in S : \A u \in S : t <= u
       IN <<m>> \o SortAscending(S \ {m})

(* ------------------------------- parse --------------------------------- *)

\* first loop of parse: one Superpixel per tag, every coord appended to the
\* Superpixel of its tag; stops with ok = FALSE at the reserved label
\* a variant without the test on the reserved label
IsReservedTag_Never(tag) == FALSE

\* the test tag == 0xFFFFFF on the label read from a pixel
IsReservedTag(tag) == tag = ReservedTag

\* a variant that makes a new Superpixel for every pixel
SuperpixelForTag_AlwaysNew(map, tag) ==
  [t \in (DOMAIN map) \cup {tag} |-> IF t = tag THEN NewSuperpixel(tag) ELSE map[t]]

\* tagToSuperpixelMap.find(tag): a Superpixel is made and inserted only when
\* the table holds no key for the tag
SuperpixelForTag(map, tag) ==
  IF tag \in DOMAIN map THEN map ELSE map @@ (tag :> NewSuperpixel(tag))

RECURSIVE ParsePixels(_, _, _)
ParsePixels(i, img, map) ==
  IF i > Rows * Cols THEN [ok |-> TRUE, tags |-> img, map |-> map]
  ELSE LET p == PixelOrder[i]
           tag == Vec3BToUID(img[p])
       IN IF IsReservedTag(tag)
          THEN [ok |-> FALSE, tags |-> img, map |-> map]
          ELSE LET tag1 == tag + 1
                   img1 == [img EXCEPT ![p] = TagToVec3b(tag1)]
                   map1 == SuperpixelForTag(map, tag1)
                   map2 == [map1 EXCEPT ![tag1].coords = Append(@, p)]
               IN ParsePixels(i + 1, img1, map2)

\* a variant with the 4 offsets that share a side with the center only
neighborOffsets_SidesOnly ==
  << <<0, -1>>, <<-1, 0>>, <<1, 0>>, <<0, 1>> >>

neighborOffsets ==
  << <<-1, -1>>, <<0, -1>>, <<1, -1>>, <<-1, 0>>, <<1, 0>>, <<-1, 1>>, <<0, 1>>, <<1, 1>> >>

\* a variant that ignores only the tags found outside of the image
IgnoreFoundNeighbor_OutsideOnly(foundNeighborUID, centerTag) == foundNeighborUID = -1

\* a found tag is ignored when it is invalid (-1) or the tag of the center
IgnoreFoundNeighbor(foundNeighborUID, centerTag) ==
  foundNeighborUID = -1 \/ foundNeighborUID = centerTag

\* the loop over the 8 offsets around (x, y): a found tag that is neither -1
\* nor the center tag is pushed when the vector does not hold it yet
RECURSIVE ScanOffsets(_, _, _, _, _)
ScanOffsets(k, img, p, centerTag, neighborUIDsVec) ==
  IF k > Len(neighborOffsets) THEN neighborUIDsVec
  ELSE LET nX == p[1] + neighborOffsets[k][1]
           nY == p[2] + neighborOffsets[k][2]
           foundNeighborUID ==
             IF nX < 0 \/ nX >= Cols THEN -1
             ELSE IF nY < 0 \/ nY >= Rows THEN -1
             ELSE Vec3BToUID(img[<<nX, nY>>])
           vec1 ==
             IF IgnoreFoundNeighbor(foundNeighborUID, centerTag) THEN neighborUIDsVec
             ELSE IF Contains(neighborUIDsVec, foundNeighborUID) THEN neighborUIDsVec
             ELSE Append(neighborUIDsVec, foundNeighborUID)
       IN ScanOffsets(k + 1, img, p, centerTag, vec1)

\* the pixel loop of parseSuperpixelEdges, building tagToNeighborMap
RECURSIVE ScanNeighbors(_, _, _)
ScanNeighbors(i, img, tagToNeighborMap) ==
  IF i > Rows * Cols THEN tagToNeighborMap
  ELSE LET p == PixelOrder[i]
           centerTag == Vec3BToUID(img[p])
           m1 == IF centerTag \in DOMAIN tagToNeighborMap THEN tagToNeighborMap
                 ELSE tagToNeighborMap @@ (centerTag :> <<>>)
           m2 == [m1 EXCEPT ![centerTag] = ScanOffsets(1, img, p, centerTag, @)]
       IN ScanNeighbors(i + 1, img, m2)

\* parseSuperpixelEdges: ok is FALSE when the assert on a superpixel without
\* neighbors fails
parseSuperpixelEdges(img, sps) ==
  LET tagToNeighborMap == ScanNeighbors(1, img, <<>>)
      rows == [t \in Range(sps) |-> GetNeighbors(tagToNeighborMap, t)]
  IN [ok |-> (Len(sps) > 1 => \A t \in Range(sps) : Len(rows[t]) > 0),
      neighbors |-> rows]

Parse(img) ==
  /\ pc = "new"
  /\ LET r == ParsePixels(1, img, <<>>)
         sps == SortAscending(DOMAIN r.map)
         e == parseSuperpixelEdges(r.tags, sps)
     IN /\ tags' = r.tags
        /\ tagToSuperpixelMap' = r.map
        /\ superpixels' = IF r.ok THEN sps ELSE <<>>
        /\ neighbors' = IF r.ok /\ e.ok THEN e.neighbors ELSE <<>>
        /\ pc' = IF ~r.ok THEN "failed" ELSE IF ~e.ok THEN "aborted" ELSE "parsed"
  /\ lastOp' = [op |-> "parse", img |-> img]
  /\ UNCHANGED edgeStrengthMap

(* ----------------------------- mergeEdge ------------------------------ *)

\* std::lower_bound by bisection over vec[first .. first+len-1]
RECURSIVE lower_bound(_, _, _, _)
lower_bound(vec, first, len, val) ==
  IF len <= 0 THEN first
  ELSE LET half == len \div 2
           mid == first + half
       IN IF vec[mid] < val
          THEN lower_bound(vec, mid + 1, len - half - 1, val)
          ELSE lower_bound(vec, first, half, val)

\* index of val in the sorted vector, Len(vec) + 1 (end) when not found
binary_search_iter(vec, val) ==
  LET last == Len(vec) + 1
      first == lower_bound(vec, 1, Len(vec), val)
  IN IF first # last
     THEN IF val < vec[first] THEN last ELSE first
     ELSE last

\* a variant in which A survives only when it is strictly larger
SelectSrcDst_Strict(A, B, numCoordsA, numCoordsB) ==
  IF numCoordsA > numCoordsB
  THEN [src |-> B, dst |-> A]
  ELSE [src |-> A, dst |-> B]

\* survivor selection: B is merged into A when A has at least as many coords
SelectSrcDst(A, B, numCoordsA, numCoordsB) ==
  IF numCoordsA >= numCoordsB
  THEN [src |-> B, dst |-> A]
  ELSE [src |-> A, dst |-> B]

\* a variant that clears the coords of src without pushing them onto dst
MoveCoords_Drop(map, src, dst) == [map EXCEPT ![src].coords = <<>>]

\* the coords of src are pushed onto dst, then src's coords are resized to 0
MoveCoords(map, src, dst) ==
  [map EXCEPT ![dst].coords = @ \o map[src].coords, ![src].coords = <<>>]

\* removal of the src tag from the superpixels vector by binary search
EraseSuperpixel(sps, tag) ==
  LET it == binary_search_iter(sps, tag)
  IN IF it # Len(sps) + 1
     THEN [found |-> TRUE, superpixels |-> RemoveAt(sps, it)]
     ELSE [found |-> FALSE, superpixels |-> sps]

\* a variant that leaves the cached strengths of the edges of dst in place
EraseDstEdgeStrengths_Keep(i, neighborsDst, dst, esm) == esm

\* loop over the neighbors of dst: src is erased from the copy and the cached
\* strength of every edge (dst, neighbor) is erased
RECURSIVE EraseDstEdgeStrengths(_, _, _, _)
EraseDstEdgeStrengths(i, neighborsDst, dst, esm) ==
  IF i > Len(neighborsDst) THEN esm
  ELSE EraseDstEdgeStrengths(i + 1, neighborsDst, dst,
                             Erase(esm, SuperpixelEdge(dst, neighborsDst[i])))

\* a variant without the assert that src is in the row of dst
RemoveSrcFromDst_Unchecked(nbrs, esm, src, dst) ==
  LET neighborsDst == GetNeighbors(nbrs, dst)
  IN [found |-> TRUE,
      neighborsDst |-> SelectSeq(neighborsDst, LAMBDA t : t # src),
      edgeStrengthMap |-> EraseDstEdgeStrengths(1, neighborsDst, dst, esm)]

\* the row of dst loses src (found is what assert(found) tests) and the cached
\* strength of every edge of dst is erased
RemoveSrcFromDst(nbrs, esm, src, dst) ==
  LET neighborsDst == GetNeighbors(nbrs, dst)
  IN [found |-> Contains(neighborsDst, src),
      neighborsDst |-> SelectSeq(neighborsDst, LAMBDA t : t # src),
      edgeStrengthMap |-> EraseDstEdgeStrengths(1, neighborsDst, dst, esm)]

\* a variant that leaves the cached strength of (src, neighbor) in place
EraseSrcEdgeStrength_Keep(esm, src, neighborOfSrcTag) == esm

\* edgeStrengthMap.erase of the key (src, neighbor of src)
EraseSrcEdgeStrength(esm, src, neighborOfSrcTag) ==
  Erase(esm, SuperpixelEdge(src, neighborOfSrcTag))

\* a variant that leaves src in the row
NeighborRowWithoutSrc_Keep(vec, src) == vec

\* the inner loop over the row of one neighbor of src: src is erased from it
NeighborRowWithoutSrc(vec, src) == SelectSeq(vec, LAMBDA t : t # src)

\* a variant that does not push dst
RowWithDst_Skip(vec, dst) == vec

\* neighbors.push_back(dstPtr->tag) on the row of a neighbor of src
RowWithDst(vec, dst) == Append(vec, dst)

\* a variant that leaves the row of dst as it is
PushNeighborOntoDst_Skip(nbrs, dst, neighborOfSrcTag) == nbrs

\* the neighbor of src is pushed onto the row of dst
PushNeighborOntoDst(nbrs, dst, neighborOfSrcTag) ==
  SetNeighbors(nbrs, dst, Append(GetNeighbors(nbrs, dst), neighborOfSrcTag))

\* loop over the neighbors of src: the cached strength of (src, neighbor) is
\* erased; for a neighbor other than dst, src leaves its row and dst enters
\* it (and it enters dst's row) unless dst is in the row already
RECURSIVE UpdateNeighborsOfSrc(_, _, _, _, _, _)
UpdateNeighborsOfSrc(i, neighborsSrc, src, dst, nbrs, esm) ==
  IF i > Len(neighborsSrc)
  THEN [found |-> TRUE, neighbors |-> nbrs, edgeStrengthMap |-> esm]
  ELSE LET neighborOfSrcTag == neighborsSrc[i]
           esm1 == EraseSrcEdgeStrength(esm, src, neighborOfSrcTag)
       IN IF neighborOfSrcTag = dst
          THEN UpdateNeighborsOfSrc(i + 1, neighborsSrc, src, dst, nbrs, esm1)
          ELSE LET vec == GetNeighbors(nbrs, neighborOfSrcTag)
                   found == Contains(vec, src)
                   vec1 == NeighborRowWithoutSrc(vec, src)
                   hasDst == Contains(vec1, dst)
                   nbrs1 == IF hasDst THEN nbrs
                            ELSE PushNeighborOntoDst(nbrs, dst, neighborOfSrcTag)
                   vec2 == IF hasDst THEN vec1 ELSE RowWithDst(vec1, dst)
                   nbrs2 == SetNeighbors(nbrs1, neighborOfSrcTag, vec2)
               IN IF ~found
                  THEN [found |-> FALSE, neighbors |-> nbrs, edgeStrengthMap |-> esm1]
                  ELSE UpdateNeighborsOfSrc(i + 1, neighborsSrc, src, dst, nbrs2, esm1)

\* a variant that puts the weight histories of src in front of those of dst
MoveEdgeWeights_SrcFirst(map, src, dst) ==
  [map EXCEPT ![dst].mergedEdgeWeights = map[src].mergedEdgeWeights \o @,
              ![dst].unmergedEdgeWeights = map[src].unmergedEdgeWeights \o @]

\* the weight histories of src are appended to those of dst
MoveEdgeWeights(map, src, dst) ==
  [map EXCEPT ![dst].mergedEdgeWeights = @ \o map[src].mergedEdgeWeights,
              ![dst].unmergedEdgeWeights = @ \o map[src].unmergedEdgeWeights]

\* a variant that keeps the Superpixel of src in the table
EraseSuperpixelObject_Keep(map, tagToRemove) == map

\* tagToSuperpixelMap.erase(tagToRemove); delete srcPtr
EraseSuperpixelObject(map, tagToRemove) == [t \in (DOMAIN map) \ {tagToRemove} |-> map[t]]

\* what lastOp keeps of a mergeEdge call: its arguments, its locals and the
\* keys the cache held when it was entered
MergeOp(A, B, src, dst, numCoordsA, numCoordsB, neighborsDst, neighborsSrc) ==
  [op |-> "mergeEdge", A |-> A, B |-> B, src |-> src, dst |-> dst,
   numCoordsA |-> numCoordsA, numCoordsB |-> numCoordsB,
   neighborsDst |-> neighborsDst, neighborsSrc |-> neighborsSrc,
   strengthKeys |-> DOMAIN edgeStrengthMap]

\* the state a failed assert leaves behind
Abort(map, sps, nbrs, esm, op) ==
  /\ pc' = "aborted"
  /\ tagToSuperpixelMap' = map
  /\ superpixels' = sps
  /\ neighbors' = nbrs
  /\ edgeStrengthMap' = esm
  /\ lastOp' = op

MergeEdge(A, B) ==
  /\ pc = "parsed"
  /\ UNCHANGED tags
  /\ LET spAPtr == getSuperpixelPtr(A)
         spBPtr == getSuperpixelPtr(B)
     IN IF A = B \/ spAPtr = NULL \/ spBPtr = NULL
        THEN Abort(tagToSuperpixelMap, superpixels, neighbors, edgeStrengthMap,
                   MergeOp(A, B, NULL, NULL, 0, 0, <<>>, <<>>))
        ELSE
          LET numCoordsA == Len(tagToSuperpixelMap[spAPtr].coords)
              numCoordsB == Len(tagToSuperpixelMap[spBPtr].coords)
              sd == SelectSrcDst(A, B, numCoordsA, numCoordsB)
              src == sd.src
              dst == sd.dst
              map1 == MoveCoords(tagToSuperpixelMap, src, dst)
              er == EraseSuperpixel(superpixels, src)
              rd == RemoveSrcFromDst(neighbors, edgeStrengthMap, src, dst)
              nbrs1 == SetNeighbors(neighbors, dst, rd.neighborsDst)
              neighborsSrc == GetNeighbors(nbrs1, src)
              un == UpdateNeighborsOfSrc(1, neighborsSrc, src, dst, nbrs1, rd.edgeStrengthMap)
              op == MergeOp(A, B, src, dst, numCoordsA, numCoordsB,
                            GetNeighbors(neighbors, dst), neighborsSrc)
          IN IF ~er.found
             THEN Abort(map1, superpixels, neighbors, edgeStrengthMap, op)
             ELSE IF ~rd.found
             THEN Abort(map1, er.superpixels, neighbors, rd.edgeStrengthMap, op)
             ELSE IF ~un.found
             THEN Abort(map1, er.superpixels, un.neighbors, un.edgeStrengthMap, op)
             ELSE
               /\ tagToSuperpixelMap' = EraseSuperpixelObject(MoveEdgeWeights(map1, src, dst), src)
               /\ superpixels' = er.superpixels
               /\ neighbors' = RemoveNeighbors(un.neighbors, src)
               /\ edgeStrengthMap' = un.edgeStrengthMap
               /\ pc' = "parsed"
               /\ lastOp' = op

(* ------------------------- the edge-weight cache ----------------------- *)

Weights == 1..MaxWeight

\* a caller caches the weight of the edge between tag and one of its neighbors
CacheEdgeWeight(tag, n, w) ==
  /\ pc = "parsed"
  /\ getSuperpixelPtr(tag) # NULL
  /\ Contains(GetNeighbors(neighbors, tag), n)
  /\ SuperpixelEdge(tag, n) \notin DOMAIN edgeStrengthMap
  /\ Cardinality(DOMAIN edgeStrengthMap) < MaxCached
  /\ edgeStrengthMap' = edgeStrengthMap @@ (SuperpixelEdge(tag, n) :> w)
  /\ lastOp' = [op |-> "cacheEdgeWeight"]
  /\ UNCHANGED <<tags, tagToSuperpixelMap, superpixels, neighbors, pc>>

(* ------------------------- sortSuperpixelsBySize ----------------------- *)

\* a variant that puts the larger tag first on a tie
CompareSuperpixelSizeDecreasingFunc_LargerTagFirst(map, s1, s2) ==
  LET sp1N == Len(map[s1].coords)
      sp2N == Len(map[s2].coords)
  IN IF sp1N = sp2N THEN s1 > s2 ELSE sp1N > sp2N

\* TRUE when s1 goes before s2: more coords first, on a tie the smaller tag
CompareSuperpixelSizeDecreasingFunc(map, s1, s2) ==
  LET sp1N == Len(map[s1].coords)
      sp2N == Len(map[s2].coords)
  IN IF sp1N = sp2N THEN s1 < s2 ELSE sp1N > sp2N

\* a variant that leaves the tags in the order of their numbers
SortBySize_ByTag(map, S) == SortAscending(S)

\* std::sort under the comparator: the first element is the one that goes
\* before every other one
RECURSIVE SortBySize(_, _)
SortBySize(map, S) ==
  IF S = {} THEN <<>>
  ELSE LET m == CHOOSE t \in S :
                  \A u \in S \ {t} : CompareSuperpixelSizeDecreasingFunc(map, t, u)
       IN <<m>> \o SortBySize(map, S \ {m})

\* the superpixels vector is rewritten in place in sorted order
SortSuperpixelsBySize ==
  /\ pc = "parsed"
  /\ superpixels' = SortBySize(tagToSuperpixelMap, Range(superpixels))
  /\ lastOp' = [op |-> "sortSuperpixelsBySize"]
  /\ UNCHANGED <<tags, tagToSuperpixelMap, neighbors, edgeStrengthMap, pc>>

(* ----------------------- pos_sample_within_bound ---------------------- *)

\* a weight is a float of the range 0.0 .. 1.0 in the code and an integer
\* number of hundredths here; the tests on mean and stddev are made exact by
\* multiplying them out
StrongEdgeWeight == 50
minStddev == 1

RECURSIVE SumSeq(_)
SumSeq(vec) == IF vec = <<>> THEN 0 ELSE Head(vec) + SumSeq(Tail(vec))

\* element i is the delta from element i - 1, the first one the delta from 0
float_diffs(vec) ==
  [i \in 1..Len(vec) |-> IF i = 1 THEN vec[1] ELSE vec[i] - vec[i - 1]]

AbsValue(deltaWeight) == IF deltaWeight > 0 THEN deltaWeight ELSE 0 - deltaWeight

\* the deltas other than 0 as absolute values
UseDeltas(deltaWeights) ==
  LET nonZero == SelectSeq(deltaWeights, LAMBDA d : d # 0)
  IN [i \in 1..Len(nonZero) |-> AbsValue(nonZero[i])]

NumNonNegDeltas(deltaWeights) == Len(SelectSeq(deltaWeights, LAMBDA d : d > 0))

\* the weights after the first one that are above every weight before them
RECURSIVE IncreasingWeights(_, _, _)
IncreasingWeights(i, weights, prev) ==
  IF i > Len(weights) THEN <<>>
  ELSE IF weights[i] > prev
  THEN <<weights[i]>> \o IncreasingWeights(i + 1, weights, weights[i])
  ELSE IncreasingWeights(i + 1, weights, prev)

\* stddev > minStddev && currentWeightDelta > 0 && currentWeightDelta >
\* mean + 2 * stddev, with mean = S / n and stddev = sqrt(V) / n
AboveUpperLimit(useDeltas, currentWeightDelta) ==
  LET n == Len(useDeltas)
      S == SumSeq(useDeltas)
      Q == SumSeq([i \in 1..n |-> useDeltas[i] * useDeltas[i]])
      V == n * Q - S * S
      d == n * currentWeightDelta - S
  IN /\ n > 0
     /\ V > minStddev * minStddev * n * n
     /\ currentWeightDelta > 0
     /\ d > 0
     /\ d * d > 4 * V

\* a variant without the test on a history of one strong weight
RejectsSingleStrongWeight_Never(weights) == FALSE

\* weights.size() == 1 && weights[0] > 0.5
RejectsSingleStrongWeight(weights) ==
  Len(weights) = 1 /\ weights[1] > StrongEdgeWeight

\* a variant that asks for a history of one weight at most
TooShortToBound_One(weights) == Len(weights) <= 1

\* weights.size() <= 2
TooShortToBound(weights) == Len(weights) <= 2

\* ok is FALSE when assert(deltaWeights.size() >= 2) or
\* assert(increasingWeights.size() > 0) fails, within is the value returned
pos_sample_within_bound(weights, currentWeight) ==
  IF RejectsSingleStrongWeight(weights) THEN [ok |-> TRUE, within |-> FALSE]
  ELSE IF TooShortToBound(weights) THEN [ok |-> TRUE, within |-> TRUE]
  ELSE
    LET deltaWeights == Tail(float_diffs(weights))
    IN IF Len(deltaWeights) < 2
       THEN [ok |-> FALSE, within |-> FALSE]
       ELSE IF NumNonNegDeltas(deltaWeights) >= 3
       THEN LET increasingWeights == IncreasingWeights(2, weights, weights[1])
            IN IF increasingWeights = <<>>
               THEN [ok |-> FALSE, within |-> FALSE]
               ELSE [ok |-> TRUE,
                     within |-> ~AboveUpperLimit(
                                   Tail(float_diffs(increasingWeights)),
                                   currentWeight - increasingWeights[Len(increasingWeights)])]
       ELSE [ok |-> TRUE,
             within |-> ~AboveUpperLimit(UseDeltas(deltaWeights),
                                        currentWeight - weights[Len(weights)])]

\* the histories and the candidate weights the function is applied to
MaxHistory == 4

SampleWeights == {10, 50, 60, 90}

Histories == UNION {[1..n -> SampleWeights] : n \in 0..MaxHistory}

\* a call of the function on its own
PosSampleWithinBound ==
  /\ lastOp.op = "none"
  /\ \E weights \in Histories, currentWeight \in SampleWeights \cup {0} :
       lastOp' = [op |-> "pos_sample_within_bound", weights |-> weights,
                  currentWeight |-> currentWeight,
                  result |-> pos_sample_within_bound(weights, currentWeight)]
  /\ UNCHANGED storeVars
  /\ UNCHANGED strategyVars

(* ------------------------ mergeAlikeSuperpixels ------------------------ *)

NoTag == -1

\* the values compareHist gives for a pair of regions, in hundredths
CompareWeights == {0, 30, 90}

\* a variant that looks at the first tag of the vector only
LargestUnlocked_FirstOnly(i, maxThisIter, maxTag) ==
  IF superpixels # <<>> /\ superpixels[1] \notin locked THEN superpixels[1] ELSE NoTag

\* the loop over the superpixels vector: the first tag of the largest count
\* among the tags that are not locked, NoTag when every tag is locked
RECURSIVE LargestUnlocked(_, _, _)
LargestUnlocked(i, maxThisIter, maxTag) ==
  IF i > Len(superpixels) THEN maxTag
  ELSE LET tag == superpixels[i]
           numCoords == Len(tagToSuperpixelMap[tag].coords)
       IN IF numCoords > maxThisIter /\ tag \notin locked
          THEN LargestUnlocked(i + 1, numCoords, tag)
          ELSE LargestUnlocked(i + 1, maxThisIter, maxTag)

\* TRUE when elem1 goes before elem2: the smaller weight first, on a tie the
\* larger count; a tuple is <<weight, count, tag>>
CompareNeighborTupleFunc(elem1, elem2) ==
  IF elem1[1] = elem2[1] THEN elem1[2] > elem2[2] ELSE elem1[1] < elem2[1]

\* a variant that leaves any tuple at results[0]
SortedFirst_Any(results) == results

\* the tuples std::sort can leave at results[0]: no other tuple goes before
SortedFirst(results) ==
  {e \in results : \A u \in results : ~CompareNeighborTupleFunc(u, e)}

\* a variant that forgets the tags locked before
LockTag_Only(lockedTable, tag) == {tag}

\* a variant that sets no lock
LockTag_Skip(lockedTable, tag) == lockedTable

\* locked[tag] = true
LockTag(lockedTable, tag) == lockedTable \cup {tag}

\* histWeights[tag], which makes an empty entry for a tag without one
HistWeightsAt(hw, tag) == IF tag \in DOMAIN hw THEN hw ELSE hw @@ (tag :> <<>>)

\* what strategy keeps of one pass of the inner loop
StepLocals(results, minTuple, weights, within, did) ==
  [results |-> results, minTuple |-> minTuple, weights |-> weights,
   within |-> within, did |-> did, lockedBefore |-> locked,
   sizesBefore |-> [t \in DOMAIN tagToSuperpixelMap |-> Len(tagToSuperpixelMap[t].coords)]]

\* the call: the locked table and the weight table start empty
MergeAlikeStart ==
  /\ pc = "parsed"
  /\ strategy.at = "idle"
  /\ locked' = {}
  /\ histWeights' = <<>>
  /\ strategy' = [at |-> "select", maxTag |-> NoTag,
                  start |-> [t \in DOMAIN tagToSuperpixelMap |-> Len(tagToSuperpixelMap[t].coords)],
                  dissimilar |-> TRUE,
                  step |-> [did |-> "none"]]
  /\ lastOp' = [op |-> "mergeAlikeSuperpixels"]
  /\ UNCHANGED storeVars

\* the outer loop: the largest unlocked region is selected, the strategy
\* returns when there is none
MergeAlikeSelect ==
  /\ pc = "parsed"
  /\ strategy.at = "select"
  /\ LET maxTag == LargestUnlocked(1, -1, NoTag)
     IN strategy' = [strategy EXCEPT !.at = IF maxTag = NoTag THEN "done" ELSE "grow",
                                     !.maxTag = maxTag,
                                     !.step = [did |-> "none"]]
  /\ lastOp' = [op |-> "mergeAlikeSuperpixels"]
  /\ UNCHANGED <<storeVars, locked, histWeights>>

\* one pass of the inner loop on maxTag: compare with the unlocked
\* neighbors, then merge the edge to the first of the sorted results when
\* pos_sample_within_bound accepts its weight, lock maxTag otherwise or when
\* there is no result
MergeAlikeStep ==
  /\ pc = "parsed"
  /\ strategy.at = "grow"
  /\ LET maxTag == strategy.maxTag
         unlockedNeighbors == {n \in Range(GetNeighbors(neighbors, maxTag)) : n \notin locked}
     IN \E compar_bh \in [unlockedNeighbors -> CompareWeights] :
          LET results == {<<compar_bh[n], Len(tagToSuperpixelMap[n].coords), n>> :
                            n \in unlockedNeighbors}
              dissimilar == strategy.dissimilar /\
                            \A n \in unlockedNeighbors : compar_bh[n] > StrongEdgeWeight
          IN IF results = {}
             THEN /\ locked' = LockTag(locked, maxTag)
                  /\ strategy' = [strategy EXCEPT !.at = "select",
                                    !.step = StepLocals(results, <<>>, <<>>, FALSE, "lock")]
                  /\ lastOp' = [op |-> "mergeAlikeSuperpixels"]
                  /\ UNCHANGED <<storeVars, histWeights>>
             ELSE \E minTuple \in SortedFirst(results) :
                    LET minWeight == minTuple[1]
                        minNeighbor == minTuple[3]
                        hw == HistWeightsAt(histWeights, maxTag)
                        weights == hw[maxTag]
                        r == pos_sample_within_bound(weights, minWeight)
                    IN IF ~r.ok
                       THEN /\ pc' = "aborted"
                            /\ histWeights' = hw
                            /\ strategy' = [strategy EXCEPT !.dissimilar = dissimilar,
                                 !.step = StepLocals(results, minTuple, weights, FALSE, "abort")]
                            /\ lastOp' = [op |-> "mergeAlikeSuperpixels"]
                            /\ UNCHANGED <<tags, tagToSuperpixelMap, superpixels, neighbors,
                                           edgeStrengthMap, locked>>
                       ELSE IF r.within
                       THEN /\ histWeights' = IF minWeight # 0
                                              THEN [hw EXCEPT ![maxTag] = Append(weights, minWeight)]
                                              ELSE hw
                            /\ MergeEdge(maxTag, minNeighbor)
                            /\ strategy' = [strategy EXCEPT !.dissimilar = dissimilar,
                                 !.step = StepLocals(results, minTuple, weights, TRUE, "merge")]
                            /\ UNCHANGED locked
                       ELSE /\ locked' = LockTag(locked, maxTag)
                            /\ histWeights' = hw
                            /\ strategy' = [strategy EXCEPT !.at = "select",
                                 !.dissimilar = dissimilar,
                                 !.step = StepLocals(results, minTuple, weights, FALSE, "lock")]
                            /\ lastOp' = [op |-> "mergeAlikeSuperpixels"]
                            /\ UNCHANGED storeVars

(* -------------------- backprojectNeighborSuperpixels ------------------- *)

\* every caller passes 20 percentage ranges
numPercentRanges == 20

\* the BackprojectRange presets of mergeBackprojectSuperpixels
BackprojectRanges ==
  {"BACKPROJECT_HIGH_FIVE", "BACKPROJECT_HIGH_FIVE8", "BACKPROJECT_HIGH_TEN",
   "BACKPROJECT_HIGH_15", "BACKPROJECT_HIGH_20", "BACKPROJECT_HIGH_50"}

\* the numTopPercent a preset passes to backprojectNeighborSuperpixels
NumTopPercent(range) ==
  CASE range = "BACKPROJECT_HIGH_FIVE" -> 1
    [] range = "BACKPROJECT_HIGH_FIVE8" -> 2
    [] range = "BACKPROJECT_HIGH_TEN" -> 2
    [] range = "BACKPROJECT_HIGH_15" -> 3
    [] range = "BACKPROJECT_HIGH_20" -> 4
    [] range = "BACKPROJECT_HIGH_50" -> 10

\* the number of coords of a region of a table
CoordsSize(map, tag) == Len(map[tag].coords)

\* the neighbors of tag that have no key in the locked table
UnlockedNeighbors(nbrs, lockedTable, tag) ==
  {n \in Range(GetNeighbors(nbrs, tag)) : n \notin lockedTable}

\* the back projection of a histogram onto a neighbor of N pixels leaves
\* count of them at or above minGraylevel: every count of 0 .. N for every
\* neighbor that is not locked
BackProjections(map, nbrs, lockedTable, tag) ==
  LET unlocked == UnlockedNeighbors(nbrs, lockedTable, tag)
  IN {count \in [unlocked -> 0..(Rows * Cols)] :
        \A n \in unlocked : count[n] <= CoordsSize(map, n)}

\* per >= minPercent for per = count / N and
\* minPercent = 1 - (1 / numPercentRanges) * numTopPercent
PassesMinPercent(count, N, numTopPercent) ==
  count * numPercentRanges >= N * (numPercentRanges - numTopPercent)

\* TRUE when elem1 goes before elem2: the larger percentage first, on a tie
\* the larger N; a tuple is <<count, N, tag>> and stands for (count / N, N, tag)
CompareNeighborTupleDecreasingFunc(elem1, elem2) ==
  IF elem1[1] * elem2[2] = elem2[1] * elem1[2]
  THEN elem1[2] > elem2[2]
  ELSE elem1[1] * elem2[2] > elem2[1] * elem1[2]

\* the orders std::sort can leave the tuples in: no tuple stands behind one
\* that it goes before
RECURSIVE SortedDecreasing(_)
SortedDecreasing(results) ==
  IF results = {} THEN {<<>>}
  ELSE UNION {{<<e>> \o rest : rest \in SortedDecreasing(results \ {e})} :
                e \in {f \in results :
                         \A u \in results : ~CompareNeighborTupleDecreasingFunc(u, f)}}

\* the tuples of the unlocked neighbors whose percentage passes, before the sort
backprojectNeighborSuperpixels(map, nbrs, lockedTable, tag, count, numTopPercent) ==
  {<<count[n], CoordsSize(map, n), n>> :
     n \in {u \in UnlockedNeighbors(nbrs, lockedTable, tag) :
              PassesMinPercent(count[u], CoordsSize(map, u), numTopPercent)}}

(* --------------------- mergeBackprojectSuperpixels --------------------- *)

\* the loop that looks for the next unlocked tag of sortedSuperpixels: a tag
\* that is no longer in the table is locked and passed over, locked[nextTag]
\* makes an entry of value false for a tag that has none; unset holds the
\* keys of value false
RECURSIVE NextUnlocked(_, _, _, _, _, _)
NextUnlocked(map, sortedSuperpixels, spIter, lockedTable, unset, skipped) ==
  IF spIter > Len(sortedSuperpixels)
  THEN [maxTag |-> NoTag, spIter |-> spIter, locked |-> lockedTable, unset |-> unset,
        skipped |-> skipped]
  ELSE LET nextTag == sortedSuperpixels[spIter]
           absent == GetSuperpixelPtr(map, nextTag) = NULL
           unset1 == IF absent THEN unset \ {nextTag}
                     ELSE IF nextTag \in lockedTable THEN unset
                     ELSE unset \cup {nextTag}
           locked1 == lockedTable \cup {nextTag}
       IN IF nextTag \notin unset1
          THEN NextUnlocked(map, sortedSuperpixels, spIter + 1, locked1, unset1,
                            IF absent THEN skipped \cup {nextTag} ELSE skipped)
          ELSE [maxTag |-> nextTag, spIter |-> spIter + 1, locked |-> locked1,
                unset |-> unset1, skipped |-> skipped]

\* a variant that removes every lock
ClearLocks_All(lockedTable, mergesSinceLockClear) == {}

\* the lock is erased for every key of mergesSinceLockClear
ClearLocks(lockedTable, mergesSinceLockClear) == lockedTable \ mergesSinceLockClear

\* what strategy keeps of one step of a traversal
PassLocals(did, skipped) ==
  [did |-> did, skipped |-> skipped, lockedBefore |-> locked,
   activeBefore |-> DOMAIN tagToSuperpixelMap]

\* the call: the locked table starts empty and the regions are sorted by size
MergeBackprojectStart ==
  /\ pc = "parsed"
  /\ strategy.at = "idle"
  /\ \E range \in BackprojectRanges :
       LET sorted == SortBySize(tagToSuperpixelMap, Range(superpixels))
       IN /\ superpixels' = sorted
          /\ strategy' = [at |-> "scan", maxTag |-> NoTag,
                          numTopPercent |-> NumTopPercent(range),
                          sortedSuperpixels |-> sorted, spIter |-> 1,
                          mergesSinceLockClear |-> {}, unset |-> {},
                          resultTuples |-> <<>>, numLockClear |-> 0,
                          start |-> [t \in DOMAIN tagToSuperpixelMap |->
                                       CoordsSize(tagToSuperpixelMap, t)],
                          step |-> [did |-> "none"]]
  /\ locked' = {}
  /\ histWeights' = <<>>
  /\ lastOp' = [op |-> "mergeBackprojectSuperpixels"]
  /\ UNCHANGED <<tags, tagToSuperpixelMap, neighbors, edgeStrengthMap, pc>>

\* the head of the outer loop: the next unlocked tag of the sorted vector is
\* selected; when the vector is exhausted the strategy returns if no merge
\* was made since the last lock clear, and otherwise the locks of the tags
\* of mergesSinceLockClear are erased and the regions are sorted again
MergeBackprojectScan ==
  /\ pc = "parsed"
  /\ strategy.at = "scan"
  /\ LET r == NextUnlocked(tagToSuperpixelMap, strategy.sortedSuperpixels, strategy.spIter,
                           locked, strategy.unset, {})
     IN IF r.maxTag # NoTag
        THEN /\ locked' = r.locked
             /\ strategy' = [strategy EXCEPT !.at = "backproject", !.maxTag = r.maxTag,
                               !.spIter = r.spIter, !.unset = r.unset,
                               !.step = PassLocals("select", r.skipped)]
             /\ UNCHANGED superpixels
        ELSE IF strategy.mergesSinceLockClear = {}
        THEN /\ locked' = r.locked
             /\ strategy' = [strategy EXCEPT !.at = "done", !.maxTag = NoTag,
                               !.spIter = r.spIter, !.unset = r.unset,
                               !.step = PassLocals("return", r.skipped)]
             /\ UNCHANGED superpixels
        ELSE LET sorted == SortBySize(tagToSuperpixelMap, Range(superpixels))
                 cleared == ClearLocks(r.locked, strategy.mergesSinceLockClear)
             IN /\ locked' = cleared
                /\ superpixels' = sorted
                /\ strategy' = [strategy EXCEPT !.maxTag = NoTag,
                                  !.sortedSuperpixels = sorted, !.spIter = 1,
                                  !.unset = r.unset \cap cleared,
                                  !.numLockClear = @ + 1,
                                  !.step = [PassLocals("clear", r.skipped) EXCEPT
                                              !.lockedBefore = r.locked] @@
                                           [merged |-> strategy.mergesSinceLockClear],
                                  !.mergesSinceLockClear = {}]
  /\ lastOp' = [op |-> "mergeBackprojectSuperpixels"]
  /\ UNCHANGED <<tags, tagToSuperpixelMap, neighbors, edgeStrengthMap, pc, histWeights>>

\* the head of the inner loop on maxTag: it ends when maxTag is no longer in
\* the table; maxTag is locked when no neighbor passes the back projection;
\* otherwise the sorted tuples are the neighbors to merge
MergeBackprojectNeighbors ==
  /\ pc = "parsed"
  /\ strategy.at = "backproject"
  /\ LET maxTag == strategy.maxTag
     IN IF getSuperpixelPtr(maxTag) = NULL
        THEN /\ strategy' = [strategy EXCEPT !.at = "scan",
                               !.step = PassLocals("gone", {})]
             /\ UNCHANGED locked
        ELSE \E count \in BackProjections(tagToSuperpixelMap, neighbors, locked, maxTag) :
               LET results == backprojectNeighborSuperpixels(tagToSuperpixelMap, neighbors,
                                locked, maxTag, count, strategy.numTopPercent)
               IN IF results = {}
                  THEN /\ locked' = LockTag(locked, maxTag)
                       /\ strategy' = [strategy EXCEPT !.at = "scan",
                                         !.unset = @ \ {maxTag},
                                         !.step = PassLocals("lock", {})]
                  ELSE \E resultTuples \in SortedDecreasing(results) :
                         /\ strategy' = [strategy EXCEPT !.at = "mergeEach",
                                           !.resultTuples = resultTuples,
                                           !.step = PassLocals("results", {})]
                         /\ UNCHANGED locked
  /\ lastOp' = [op |-> "mergeBackprojectSuperpixels"]
  /\ UNCHANGED <<storeVars, histWeights>>

\* one pass of the loop over the tuples: the edge from maxTag to the
\* neighbor of the tuple is merged and maxTag is noted in mergesSinceLockClear
MergeBackprojectEach ==
  /\ pc = "parsed"
  /\ strategy.at = "mergeEach"
  /\ LET maxTag == strategy.maxTag
         mergeNeighbor == Head(strategy.resultTuples)[3]
         rest == Tail(strategy.resultTuples)
     IN /\ MergeEdge(maxTag, mergeNeighbor)
        /\ strategy' = [strategy EXCEPT !.at = IF rest = <<>> THEN "backproject" ELSE "mergeEach",
                          !.resultTuples = rest,
                          !.mergesSinceLockClear = @ \cup {maxTag},
                          !.step = PassLocals("merge", {}) @@
                                   [maxTag |-> maxTag, mergeNeighbor |-> mergeNeighbor]]
  /\ UNCHANGED <<locked, histWeights>>

(* ----------------- mergeBackprojectSmallestSuperpixels ----------------- *)

\* minThisIter starts at 0xFFFFFFFF, which is above every count; the largest
\* integer of the model checker stands for it
minThisIterStart == 2147483647

\* the loop over the superpixels vector: maxTag is the first tag whose count
\* is above every count seen since the call, minTag the first tag of the
\* smallest count among the tags without a lock, NoTag when there is none
RECURSIVE ScanSmallest(_, _, _, _, _)
ScanSmallest(i, maxNumCoords, maxTag, minThisIter, minTag) ==
  IF i > Len(superpixels)
  THEN [maxNumCoords |-> maxNumCoords, maxTag |-> maxTag, minTag |-> minTag]
  ELSE LET tag == superpixels[i]
           numCoords == Len(tagToSuperpixelMap[tag].coords)
           larger == numCoords > maxNumCoords
           smaller == numCoords < minThisIter /\ tag \notin locked
       IN ScanSmallest(i + 1,
                       IF larger THEN numCoords ELSE maxNumCoords,
                       IF larger THEN tag ELSE maxTag,
                       IF smaller THEN numCoords ELSE minThisIter,
                       IF smaller THEN tag ELSE minTag)

\* a variant that leaves the largest region without a lock
LockMaxTag_Skip(lockedTable, doLockMaxTag, maxTag) == lockedTable

\* if (doLockMaxTag) locked[maxTag] = true
LockMaxTag(lockedTable, doLockMaxTag, maxTag) ==
  IF doLockMaxTag THEN LockTag(lockedTable, maxTag) ELSE lockedTable

\* the call: the locked table starts empty, no largest region is known
MergeSmallestStart ==
  /\ pc = "parsed"
  /\ strategy.at = "idle"
  /\ \E range \in BackprojectRanges :
       strategy' = [at |-> "smallest", maxNumCoords |-> -1, maxTag |-> NoTag,
                    doLockMaxTag |-> TRUE, minTag |-> NoTag,
                    numTopPercent |-> NumTopPercent(range),
                    mergesSinceLockClear |-> {}, numLockClear |-> 0,
                    largest |-> NoTag,
                    start |-> [t \in DOMAIN tagToSuperpixelMap |->
                                 CoordsSize(tagToSuperpixelMap, t)],
                    step |-> [did |-> "none"]]
  /\ locked' = {}
  /\ histWeights' = <<>>
  /\ lastOp' = [op |-> "mergeBackprojectSmallestSuperpixels"]
  /\ UNCHANGED storeVars

\* the head of the outer loop: the smallest region without a lock is
\* selected; when there is none the strategy returns if no merge was made
\* since the last lock clear, and otherwise the locks of the tags of
\* mergesSinceLockClear are erased; the first selection locks the largest
\* region
MergeSmallestSelect ==
  /\ pc = "parsed"
  /\ strategy.at = "smallest"
  /\ LET r == ScanSmallest(1, strategy.maxNumCoords, strategy.maxTag, minThisIterStart, NoTag)
     IN IF r.minTag # NoTag
        THEN /\ locked' = LockMaxTag(locked, strategy.doLockMaxTag, r.maxTag)
             /\ strategy' = [strategy EXCEPT !.at = "shrink", !.minTag = r.minTag,
                               !.maxNumCoords = r.maxNumCoords, !.maxTag = r.maxTag,
                               !.doLockMaxTag = FALSE,
                               !.largest = IF strategy.doLockMaxTag THEN r.maxTag ELSE @,
                               !.step = PassLocals("select", {})]
        ELSE IF strategy.mergesSinceLockClear = {}
        THEN /\ strategy' = [strategy EXCEPT !.at = "done", !.minTag = NoTag,
                               !.maxNumCoords = r.maxNumCoords, !.maxTag = r.maxTag,
                               !.step = PassLocals("return", {})]
             /\ UNCHANGED locked
        ELSE /\ locked' = ClearLocks(locked, strategy.mergesSinceLockClear)
             /\ strategy' = [strategy EXCEPT !.minTag = NoTag,
                               !.maxNumCoords = r.maxNumCoords, !.maxTag = r.maxTag,
                               !.numLockClear = @ + 1,
                               !.step = PassLocals("clear", {}) @@
                                        [merged |-> strategy.mergesSinceLockClear],
                               !.mergesSinceLockClear = {}]
  /\ lastOp' = [op |-> "mergeBackprojectSmallestSuperpixels"]
  /\ UNCHANGED <<storeVars, histWeights>>

\* one pass of the inner loop on minTag: it ends when minTag has a lock or is
\* no longer in the table; minTag is locked when no neighbor passes the back
\* projection; otherwise the edge from minTag to the neighbor of the first
\* sorted tuple is merged and that neighbor is noted in mergesSinceLockClear
MergeSmallestStep ==
  /\ pc = "parsed"
  /\ strategy.at = "shrink"
  /\ LET minTag == strategy.minTag
     IN IF minTag \in locked \/ getSuperpixelPtr(minTag) = NULL
        THEN /\ strategy' = [strategy EXCEPT !.at = "smallest",
                               !.step = PassLocals("gone", {})]
             /\ lastOp' = [op |-> "mergeBackprojectSmallestSuperpixels"]
             /\ UNCHANGED <<storeVars, locked>>
        ELSE \E count \in BackProjections(tagToSuperpixelMap, neighbors, locked, minTag) :
               LET results == backprojectNeighborSuperpixels(tagToSuperpixelMap, neighbors,
                                locked, minTag, count, strategy.numTopPercent)
               IN IF results = {}
                  THEN /\ locked' = LockTag(locked, minTag)
                       /\ strategy' = [strategy EXCEPT !.at = "smallest",
                                         !.step = PassLocals("lock", {})]
                       /\ lastOp' = [op |-> "mergeBackprojectSmallestSuperpixels"]
                       /\ UNCHANGED storeVars
                  ELSE \E resultTuples \in SortedDecreasing(results) :
                         LET mergeNeighbor == resultTuples[1][3]
                         IN /\ MergeEdge(minTag, mergeNeighbor)
                            /\ strategy' = [strategy EXCEPT
                                 !.mergesSinceLockClear = @ \cup {mergeNeighbor},
                                 !.step = PassLocals("merge", {}) @@
                                          [minTag |-> minTag, mergeNeighbor |-> mergeNeighbor,
                                           numCoordsMin |-> CoordsSize(tagToSuperpixelMap, minTag),
                                           numCoordsNeighbor |->
                                             CoordsSize(tagToSuperpixelMap, mergeNeighbor)]]
                            /\ UNCHANGED locked
  /\ UNCHANGED histWeights

(* -------------- backprojectDepthFirstRecurseIntoNeighbors -------------- *)

\* the neighbors of a tag in the order of getNeighborsSet
NeighborsSet(nbrs, tag) == SortAscending(Range(GetNeighbors(nbrs, tag)))

\* lockedTablePtr->count(neighborTag) != 0
IsLockedNeighbor(lockedTable, neighborTag) == neighborTag \in lockedTable

\* a variant that admits every region
AboveMinPercent_Always(count, N, numTopPercent) == TRUE

\* per > minPercent for per = count / N and
\* minPercent = 1 - (1 / numPercentRanges) * numTopPercent
AboveMinPercent(count, N, numTopPercent) ==
  count * numPercentRanges > N * (numPercentRanges - numTopPercent)

\* the neighbors of an admitted tag that are not in seenTable are pushed onto
\* the queue and entered into seenTable
RECURSIVE PushUnseen(_, _, _, _)
PushUnseen(i, neighborsVec, queue, seenTable) ==
  IF i > Len(neighborsVec) THEN [queue |-> queue, seenTable |-> seenTable]
  ELSE IF neighborsVec[i] \in seenTable
  THEN PushUnseen(i + 1, neighborsVec, queue, seenTable)
  ELSE PushUnseen(i + 1, neighborsVec, Append(queue, neighborsVec[i]),
                  seenTable \cup {neighborsVec[i]})

\* the loop on the queue: the last tag is popped; a locked tag is passed
\* over; a tag whose percentage is above minPercent is admitted to the
\* results and its unseen neighbors are pushed
RECURSIVE DepthFirstLoop(_, _, _, _, _, _, _, _)
DepthFirstLoop(map, nbrs, lockedTable, count, numTopPercent, queue, seenTable, results) ==
  IF queue = <<>> THEN results
  ELSE LET neighborTag == queue[Len(queue)]
           popped == SubSeq(queue, 1, Len(queue) - 1)
       IN IF IsLockedNeighbor(lockedTable, neighborTag)
          THEN DepthFirstLoop(map, nbrs, lockedTable, count, numTopPercent, popped,
                              seenTable, results)
          ELSE IF AboveMinPercent(count[neighborTag], CoordsSize(map, neighborTag),
                                  numTopPercent)
          THEN LET p == PushUnseen(1, NeighborsSet(nbrs, neighborTag), popped, seenTable)
               IN DepthFirstLoop(map, nbrs, lockedTable, count, numTopPercent, p.queue,
                                 p.seenTable, Append(results, neighborTag))
          ELSE DepthFirstLoop(map, nbrs, lockedTable, count, numTopPercent, popped,
                              seenTable, results)

\* a variant that returns the results of the search last one first
backprojectDepthFirstRecurseIntoNeighbors_LastFirst(map, nbrs, lockedTable, tag, count, numTopPercent) ==
  LET results == IF \A n \in Range(GetNeighbors(nbrs, tag)) : n \in lockedTable
                 THEN <<>>
                 ELSE DepthFirstLoop(map, nbrs, lockedTable, count, numTopPercent,
                                     NeighborsSet(nbrs, tag),
                                     {tag} \cup Range(GetNeighbors(nbrs, tag)), <<>>)
  IN [i \in 1..Len(results) |-> results[Len(results) + 1 - i]]

\* the results are empty when every neighbor of tag is locked; otherwise the
\* queue starts with the neighbors of tag and seenTable with tag and them
backprojectDepthFirstRecurseIntoNeighbors(map, nbrs, lockedTable, tag, count, numTopPercent) ==
  IF \A n \in Range(GetNeighbors(nbrs, tag)) : n \in lockedTable
  THEN <<>>
  ELSE DepthFirstLoop(map, nbrs, lockedTable, count, numTopPercent,
                      NeighborsSet(nbrs, tag),
                      {tag} \cup Range(GetNeighbors(nbrs, tag)), <<>>)

\* the back projection of the histogram of a seed onto every other region
\* without a lock: a count of 0 .. N of its N pixels is above minGraylevel
DepthFirstProjections(map, lockedTable, tag) ==
  LET others == (DOMAIN map) \ (lockedTable \cup {tag})
  IN {count \in [others -> 0..(Rows * Cols)] :
        \A n \in others : count[n] <= CoordsSize(map, n)}

(* -------------------- fillMergeBackprojectSuperpixels ------------------ *)

\* fillMergeBackprojectSuperpixels passes 20 ranges and 10 top slots
fillNumTopPercent == 10

\* a variant that leaves the seed without a lock after its merges
LockSeed_Skip(lockedTable, tag) == lockedTable

\* locked[maxTag] = true after the loop over the results
LockSeed(lockedTable, tag) == LockTag(lockedTable, tag)

\* the call: the locked table starts empty
FillMergeStart ==
  /\ pc = "parsed"
  /\ strategy.at = "idle"
  /\ strategy' = [at |-> "seed", maxTag |-> NoTag, results |-> <<>>,
                  seeds |-> <<>>, frontier |-> <<>>,
                  start |-> [t \in DOMAIN tagToSuperpixelMap |->
                               CoordsSize(tagToSuperpixelMap, t)],
                  step |-> [did |-> "none"]]
  /\ locked' = {}
  /\ histWeights' = <<>>
  /\ lastOp' = [op |-> "fillMergeBackprojectSuperpixels"]
  /\ UNCHANGED storeVars

\* the head of the outer loop: the largest region without a lock is the
\* seed, the strategy returns when there is none
FillMergeSelect ==
  /\ pc = "parsed"
  /\ strategy.at = "seed"
  /\ LET maxTag == LargestUnlocked(1, -1, NoTag)
     IN strategy' = [strategy EXCEPT !.at = IF maxTag = NoTag THEN "done" ELSE "search",
                       !.maxTag = maxTag,
                       !.step = PassLocals(IF maxTag = NoTag THEN "return" ELSE "select", {})]
  /\ lastOp' = [op |-> "fillMergeBackprojectSuperpixels"]
  /\ UNCHANGED <<storeVars, locked, histWeights>>

\* the head of the inner loop: it ends when the seed has a lock; the seed is
\* locked when the search admits no region; otherwise the results of the
\* search are the regions to merge
FillMergeSearch ==
  /\ pc = "parsed"
  /\ strategy.at = "search"
  /\ LET maxTag == strategy.maxTag
     IN IF maxTag \in locked
        THEN /\ strategy' = [strategy EXCEPT !.at = "seed", !.step = PassLocals("gone", {})]
             /\ UNCHANGED locked
        ELSE \E count \in DepthFirstProjections(tagToSuperpixelMap, locked, maxTag) :
               LET results == backprojectDepthFirstRecurseIntoNeighbors(tagToSuperpixelMap,
                                neighbors, locked, maxTag, count, fillNumTopPercent)
                   found == PassLocals("search", {}) @@
                            [seed |-> maxTag, results |-> results, count |-> count]
               IN IF results = <<>>
                  THEN /\ locked' = LockTag(locked, maxTag)
                       /\ strategy' = [strategy EXCEPT !.at = "seed",
                                         !.seeds = Append(@, maxTag),
                                         !.frontier = results,
                                         !.step = found]
                  ELSE /\ strategy' = [strategy EXCEPT !.at = "fill", !.results = results,
                                         !.seeds = Append(@, maxTag),
                                         !.frontier = results,
                                         !.step = found]
                       /\ UNCHANGED locked
  /\ lastOp' = [op |-> "fillMergeBackprojectSuperpixels"]
  /\ UNCHANGED <<storeVars, histWeights>>

\* one pass of the loop over the results: the edge from the seed to the
\* region is merged; after the last one the seed is locked
FillMergeEach ==
  /\ pc = "parsed"
  /\ strategy.at = "fill"
  /\ LET maxTag == strategy.maxTag
         mergeNeighbor == Head(strategy.results)
         rest == Tail(strategy.results)
     IN /\ MergeEdge(maxTag, mergeNeighbor)
        /\ locked' = IF rest = <<>> THEN LockSeed(locked, maxTag) ELSE locked
        /\ strategy' = [strategy EXCEPT !.at = IF rest = <<>> THEN "search" ELSE "fill",
                          !.results = rest,
                          !.step = PassLocals("merge", {}) @@
                                   [maxTag |-> maxTag, mergeNeighbor |-> mergeNeighbor,
                                    adjacent |-> Contains(GetNeighbors(neighbors, maxTag),
                                                          mergeNeighbor)]]
  /\ UNCHANGED histWeights

(* ---------------------- mergeIdenticalSuperpixels ---------------------- *)

\* the values of a pixel of the input image
InputPixels == 0..1

\* TRUE when the pixel of every coord is knownFirstPixel
isAllSamePixels(inputImg, knownFirstPixel, coords) ==
  \A i \in 1..Len(coords) : inputImg[coords[i]] = knownFirstPixel

\* isAllSamePixels(inputImg, tag): every pixel of tag is as its first one
isAllSameTag(inputImg, map, tag) ==
  isAllSamePixels(inputImg, inputImg[map[tag].coords[1]], map[tag].coords)

\* isAllSamePixels(inputImg, spPtr, otherTag): FALSE for a tag that is no
\* longer in the table and for one flagged as not all same; otherwise the
\* pixels of otherTag are compared to the first pixel of spPtr
isAllSameOther(inputImg, map, allSame, spPtr, otherTag) ==
  IF GetSuperpixelPtr(map, otherTag) = NULL THEN FALSE
  ELSE IF otherTag \notin allSame THEN FALSE
  ELSE LET knownFirstPixel == inputImg[map[spPtr].coords[1]]
           otherPixel == inputImg[map[otherTag].coords[1]]
       IN \/ knownFirstPixel = otherPixel
          \/ isAllSamePixels(inputImg, knownFirstPixel, map[otherTag].coords)

\* a variant that leaves the iterator on the absent tag
SkipAbsent_Stay(it) == it

\* ++it; continue; for a tag of the work list that is no longer in the table
SkipAbsent(it) == it + 1

\* the call: the regions whose pixels are all the same are flagged and make
\* up the work list
MergeIdenticalStart ==
  /\ pc = "parsed"
  /\ strategy.at = "idle"
  /\ \E inputImg \in [Coords -> InputPixels] :
       LET allSame == {t \in Range(superpixels) : isAllSameTag(inputImg, tagToSuperpixelMap, t)}
       IN strategy' = [at |-> "identical", inputImg |-> inputImg, allSame |-> allSame,
                       worklist |-> SelectSeq(superpixels, LAMBDA t : t \in allSame),
                       it |-> 1, tag |-> NoTag, neighbors |-> <<>>, mergedNeighbor |-> FALSE,
                       step |-> [did |-> "none"]]
  /\ locked' = {}
  /\ histWeights' = <<>>
  /\ lastOp' = [op |-> "mergeIdenticalSuperpixels"]
  /\ UNCHANGED storeVars

\* the head of the loop over the work list: a tag that is no longer in the
\* table is passed over, for any other a copy of its neighbors is taken
MergeIdenticalNext ==
  /\ pc = "parsed"
  /\ strategy.at = "identical"
  /\ IF strategy.it > Len(strategy.worklist)
     THEN strategy' = [strategy EXCEPT !.at = "done", !.step = PassLocals("return", {})]
     ELSE LET tag == strategy.worklist[strategy.it]
          IN IF getSuperpixelPtr(tag) = NULL
             THEN strategy' = [strategy EXCEPT !.it = SkipAbsent(@),
                                 !.step = PassLocals("skip", {tag})]
             ELSE strategy' = [strategy EXCEPT !.at = "identicalNeighbors", !.tag = tag,
                                 !.neighbors = GetNeighbors(neighbors, tag),
                                 !.mergedNeighbor = FALSE,
                                 !.step = PassLocals("select", {})]
  /\ lastOp' = [op |-> "mergeIdenticalSuperpixels"]
  /\ UNCHANGED <<storeVars, locked, histWeights>>

\* one pass of the loop over the copy of the neighbors: a neighbor whose
\* pixels are all as the first pixel of tag is merged with tag; the loop ends
\* when tag was merged away; after the loop the iterator moves on unless a
\* neighbor was merged into tag
MergeIdenticalNeighbor ==
  /\ pc = "parsed"
  /\ strategy.at = "identicalNeighbors"
  /\ LET tag == strategy.tag
     IN IF strategy.neighbors = <<>>
        THEN /\ strategy' = [strategy EXCEPT !.at = "identical",
                               !.it = IF strategy.mergedNeighbor THEN @ ELSE @ + 1,
                               !.step = PassLocals("end", {})]
             /\ lastOp' = [op |-> "mergeIdenticalSuperpixels"]
             /\ UNCHANGED storeVars
        ELSE LET neighborTag == Head(strategy.neighbors)
                 rest == Tail(strategy.neighbors)
             IN IF ~isAllSameOther(strategy.inputImg, tagToSuperpixelMap, strategy.allSame,
                                   tag, neighborTag)
                THEN /\ strategy' = [strategy EXCEPT !.neighbors = rest,
                                       !.step = PassLocals("differs", {})]
                     /\ lastOp' = [op |-> "mergeIdenticalSuperpixels"]
                     /\ UNCHANGED storeVars
                ELSE LET gone == CoordsSize(tagToSuperpixelMap, tag) <
                                 CoordsSize(tagToSuperpixelMap, neighborTag)
                     IN /\ MergeEdge(tag, neighborTag)
                        /\ strategy' =
                             IF gone
                             THEN [strategy EXCEPT !.at = "identical", !.neighbors = <<>>,
                                     !.it = IF strategy.mergedNeighbor THEN @ ELSE @ + 1,
                                     !.step = PassLocals("merge", {})]
                             ELSE [strategy EXCEPT !.neighbors = rest,
                                     !.mergedNeighbor = TRUE,
                                     !.step = PassLocals("merge", {})]
  /\ UNCHANGED <<locked, histWeights>>

(* --------------------- filterOutVeryLargeNeighbors --------------------- *)

MaxSmallNumPixelsVal == 10

\* TRUE when elem1 goes before elem2: the larger size first; a tuple is
\* <<0, tag, size>>
CompareNeighborTupleSortByDecreasingLargestNumCoordsFunc(elem1, elem2) == elem1[3] > elem2[3]

\* the orders std::sort can leave the size tuples in
RECURSIVE SortedBySize(_)
SortedBySize(tuples) ==
  IF tuples = {} THEN {<<>>}
  ELSE UNION {{<<e>> \o rest : rest \in SortedBySize(tuples \ {e})} :
                e \in {f \in tuples :
                         \A u \in tuples :
                           ~CompareNeighborTupleSortByDecreasingLargestNumCoordsFunc(u, f)}}

\* maxSize > stddevMin, where stddevMin is maxSize when stddev is below
\* MaxSmallNumPixelsVal and mean + stddev * 0.5 otherwise, with mean = S / n
\* and stddev = sqrt(V) / n
LargerThanOthers(sizesVec) ==
  LET n == Len(sizesVec)
      S == SumSeq(sizesVec)
      Q == SumSeq([i \in 1..n |-> sizesVec[i] * sizesVec[i]])
      V == n * Q - S * S
      d == 2 * (n * sizesVec[1] - S)
  IN /\ V >= MaxSmallNumPixelsVal * MaxSmallNumPixelsVal * n * n
     /\ d > 0
     /\ d * d > V

\* the loop on the sorted tuples: the first one is moved to largeNeighbors
\* while its size is larger than the others; the loop ends with one tuple left
RECURSIVE FilterLoop(_, _)
FilterLoop(tuples, largeNeighbors) ==
  IF Len(tuples) = 1 THEN largeNeighbors
  ELSE IF LargerThanOthers([i \in 1..Len(tuples) |-> tuples[i][3]])
  THEN FilterLoop(Tail(tuples), Append(largeNeighbors, tuples[1][2]))
  ELSE largeNeighbors

\* largeNeighbors for the sorted size tuples of the neighbors of a tag
filterOutVeryLargeNeighbors(tuples) == FilterLoop(tuples, <<>>)

(* ------------------------ mergeSmallSuperpixels ------------------------ *)

\* the orders std::sort can leave the compare tuples in
RECURSIVE SortedIncreasing(_)
SortedIncreasing(results) ==
  IF results = {} THEN {<<>>}
  ELSE UNION {{<<e>> \o rest : rest \in SortedIncreasing(results \ {e})} :
                e \in {f \in results : \A u \in results : ~CompareNeighborTupleFunc(u, f)}}

\* a weight is a double in the tuple and the local tie is a float: of the
\* numbers of hundredths only the multiples of 0.25 are the same as a float
\* and as a double
FloatEqualsDouble(tie, weight) == tie = weight /\ weight % 25 = 0

\* the loop from results[2] on: the neighbor of every further tuple whose
\* weight is equal to tie is taken, up to the first one that is not
RECURSIVE StillTie(_, _, _, _)
StillTie(i, results, tie, minNeighbor) ==
  IF i > Len(results) THEN minNeighbor
  ELSE IF FloatEqualsDouble(tie, results[i][1])
  THEN StillTie(i + 1, results, tie, results[i][3])
  ELSE minNeighbor

\* the neighbor of results[0], or on a tie with results[1] the last neighbor
\* of the tie
MinNeighbor(results) ==
  IF Len(results) > 1 /\ results[1][1] = results[2][1]
  THEN StillTie(3, results, results[1][1], results[2][3])
  ELSE results[1][3]

\* the call: the work list holds the regions of fewer than
\* MaxSmallNumPixelsVal coords
MergeSmallStart ==
  /\ pc = "parsed"
  /\ strategy.at = "idle"
  /\ strategy' = [at |-> "small",
                  worklist |-> SelectSeq(superpixels,
                                 LAMBDA t : CoordsSize(tagToSuperpixelMap, t) <
                                            MaxSmallNumPixelsVal),
                  it |-> 1, step |-> [did |-> "none"]]
  /\ locked' = {}
  /\ histWeights' = <<>>
  /\ lastOp' = [op |-> "mergeSmallSuperpixels"]
  /\ UNCHANGED storeVars

\* one pass of the loop over the work list: a tag that is no longer in the
\* table or no longer small is passed over; any other is merged with the
\* neighbor chosen among those that the filter did not flag, and stays the
\* current tag while it is in the table and small.  A region without a
\* neighbor makes the filter read sizesVec[0] of an empty vector and the
\* caller results[0] of an empty vector: the process ends.
MergeSmallNext ==
  /\ pc = "parsed"
  /\ strategy.at = "small"
  /\ IF strategy.it > Len(strategy.worklist)
     THEN /\ strategy' = [strategy EXCEPT !.at = "done", !.step = PassLocals("return", {})]
          /\ lastOp' = [op |-> "mergeSmallSuperpixels"]
          /\ UNCHANGED storeVars
     ELSE LET tag == strategy.worklist[strategy.it]
          IN IF getSuperpixelPtr(tag) = NULL
             THEN /\ strategy' = [strategy EXCEPT !.it = SkipAbsent(@),
                                    !.step = PassLocals("skip", {tag})]
                  /\ lastOp' = [op |-> "mergeSmallSuperpixels"]
                  /\ UNCHANGED storeVars
             ELSE IF CoordsSize(tagToSuperpixelMap, tag) >= MaxSmallNumPixelsVal
             THEN /\ strategy' = [strategy EXCEPT !.it = @ + 1,
                                    !.step = PassLocals("grown", {})]
                  /\ lastOp' = [op |-> "mergeSmallSuperpixels"]
                  /\ UNCHANGED storeVars
             ELSE IF GetNeighbors(neighbors, tag) = <<>>
             THEN /\ pc' = "aborted"
                  /\ strategy' = [strategy EXCEPT !.step = PassLocals("abort", {})]
                  /\ lastOp' = [op |-> "mergeSmallSuperpixels"]
                  /\ UNCHANGED <<tags, tagToSuperpixelMap, superpixels, neighbors,
                                 edgeStrengthMap>>
             ELSE \E tuples \in SortedBySize({<<0, n, CoordsSize(tagToSuperpixelMap, n)>> :
                                               n \in Range(GetNeighbors(neighbors, tag))}) :
                    LET largeNeighbors == filterOutVeryLargeNeighbors(tuples)
                        lockedNeighbors == Range(largeNeighbors)
                        compared == UnlockedNeighbors(neighbors, lockedNeighbors, tag)
                    IN \E compar_bh \in [compared -> CompareWeights] :
                         \E results \in SortedIncreasing(
                                          {<<compar_bh[n], CoordsSize(tagToSuperpixelMap, n), n>> :
                                             n \in compared}) :
                           LET minNeighbor == MinNeighbor(results)
                               stays == CoordsSize(tagToSuperpixelMap, tag) >=
                                          CoordsSize(tagToSuperpixelMap, minNeighbor)
                                        /\ CoordsSize(tagToSuperpixelMap, tag) +
                                           CoordsSize(tagToSuperpixelMap, minNeighbor) <
                                             MaxSmallNumPixelsVal
                           IN /\ MergeEdge(tag, minNeighbor)
                              /\ strategy' = [strategy EXCEPT
                                   !.it = IF stays THEN @ ELSE @ + 1,
                                   !.step = PassLocals("merge", {}) @@
                                            [tag |-> tag, minNeighbor |-> minNeighbor,
                                             largeNeighbors |-> largeNeighbors,
                                             results |-> results]]
  /\ UNCHANGED <<locked, histWeights>>

\* the sizes of the neighbors of a small region
NeighborSizes == {1, 2, 3, 40}

\* the most neighbors of a small region
MaxNeighbors == 3

\* the choice mergeSmallSuperpixels makes for a region with the neighbors
\* 1 .. k of every size and every compare weight
ChooseSmallNeighbor ==
  /\ lastOp.op = "none"
  /\ \E k \in 1..MaxNeighbors :
       \E size \in [1..k -> NeighborSizes], compar_bh \in [1..k -> CompareWeights] :
         \E tuples \in SortedBySize({<<0, n, size[n]>> : n \in 1..k}) :
           LET largeNeighbors == filterOutVeryLargeNeighbors(tuples)
               compared == (1..k) \ Range(largeNeighbors)
           IN \E results \in SortedIncreasing({<<compar_bh[n], size[n], n>> : n \in compared}) :
                lastOp' = [op |-> "mergeSmallSuperpixels", size |-> size,
                           compar_bh |-> compar_bh, largeNeighbors |-> largeNeighbors,
                           results |-> results, minNeighbor |-> MinNeighbor(results)]
  /\ UNCHANGED <<storeVars, strategyVars>>

(* ------------------------ mergeEdgySuperpixels ------------------------- *)

\* Superpixel::filterEdgeCoords: the coords of src that have a coord of the
\* neighbor at one of the 8 offsets
filterEdgeCoords(map, src, neighbor) ==
  {c \in Range(map[src].coords) :
     \E k \in 1..Len(neighborOffsets) :
       <<c[1] + neighborOffsets[k][1], c[2] + neighborOffsets[k][2]>> \in
         Range(map[neighbor].coords)}

\* per > 0.90f for per = the number of coords of tag that are edge coords
\* for one of its neighbors, over the number of its coords
IsEdgy(map, nbrs, tag) ==
  LET edgeCoordsVec == UNION {filterEdgeCoords(map, tag, n) : n \in Range(GetNeighbors(nbrs, tag))}
  IN Cardinality(edgeCoordsVec) * 100 > 90 * CoordsSize(map, tag)

\* the scan for edgy superpixels: a tag of largestLocked and a tag with one
\* neighbor are passed over
EdgySuperpixels(map, sps, nbrs, largestLocked) ==
  {t \in Range(sps) :
     /\ t \notin largestLocked
     /\ Len(GetNeighbors(nbrs, t)) # 1
     /\ IsEdgy(map, nbrs, t)}

\* a variant that compares with every neighbor
LockedNeighbors_None(nbrs, edgySuperpixelsTable, tag) == {}

\* lockedNeighbors: the neighbors of tag that are not keys of the table
LockedNeighbors(nbrs, edgySuperpixelsTable, tag) ==
  {n \in Range(GetNeighbors(nbrs, tag)) : n \notin edgySuperpixelsTable}

\* the edge weights SuperpixelEdgeFuncs::compareNeighborEdges gives, in
\* hundredths
EdgeWeights == {10, 50}

\* the call: the superpixels of the list passed in are locked, the edgy
\* superpixels are the keys of the table
MergeEdgyStart ==
  /\ pc = "parsed"
  /\ strategy.at = "idle"
  /\ \E largeSuperpixels \in {{}} \cup {{t} : t \in DOMAIN tagToSuperpixelMap} :
       LET edgy == EdgySuperpixels(tagToSuperpixelMap, superpixels, neighbors, largeSuperpixels)
       IN strategy' = [at |-> "edgy", largestLocked |-> largeSuperpixels,
                       edgySuperpixelsTable |-> edgy, flagged |-> edgy,
                       tag |-> NoTag, results |-> <<>>, merged |-> FALSE, rejected |-> FALSE,
                       numPasses |-> 0,
                       step |-> [did |-> "none"]]
  /\ locked' = {}
  /\ histWeights' = <<>>
  /\ lastOp' = [op |-> "mergeEdgySuperpixels"]
  /\ UNCHANGED storeVars

\* the head of the loop on the table: the strategy returns when the table is
\* empty; otherwise the tag of its first entry is compared with its
\* neighbors that are keys of the table, and is erased when there is none
MergeEdgyNext ==
  /\ pc = "parsed"
  /\ strategy.at = "edgy"
  /\ IF strategy.edgySuperpixelsTable = {}
     THEN strategy' = [strategy EXCEPT !.at = "done", !.step = PassLocals("return", {})]
     ELSE \E tag \in strategy.edgySuperpixelsTable :
            LET lockedNeighbors == LockedNeighbors(neighbors, strategy.edgySuperpixelsTable, tag)
                compared == UnlockedNeighbors(neighbors, lockedNeighbors, tag)
            IN IF compared = {}
               THEN strategy' = [strategy EXCEPT !.edgySuperpixelsTable = @ \ {tag},
                                   !.tag = tag,
                                   !.numPasses = @ + 1,
                                   !.step = PassLocals("erase", {})]
               ELSE \E edgeWeight \in [compared -> EdgeWeights] :
                      \E results \in SortedIncreasing(
                                       {<<edgeWeight[n], CoordsSize(tagToSuperpixelMap, n), n>> :
                                          n \in compared}) :
                        strategy' = [strategy EXCEPT !.at = "edgyMerge", !.tag = tag,
                                       !.results = results, !.merged = FALSE,
                                       !.numPasses = @ + 1,
                                       !.step = PassLocals("results", {})]
  /\ lastOp' = [op |-> "mergeEdgySuperpixels"]
  /\ UNCHANGED <<storeVars, locked, histWeights>>

\* one pass of the loop over the results: the loop ends when shouldMergeEdge
\* rejects the weight; otherwise the edge is merged, and the loop ends with
\* tag erased from the table when tag was merged away, and goes on with the
\* neighbor erased when it was not; after the loop tag is erased when no
\* edge was merged.  Superpixel::shouldMergeEdge gives either answer.
MergeEdgyEach ==
  /\ pc = "parsed"
  /\ strategy.at = "edgyMerge"
  /\ LET tag == strategy.tag
         afterLoop == [strategy EXCEPT !.at = "edgy", !.results = <<>>,
                         !.edgySuperpixelsTable = IF strategy.merged THEN @ ELSE @ \ {tag}]
     IN IF strategy.results = <<>>
        THEN /\ strategy' = [afterLoop EXCEPT !.step = PassLocals("end", {})]
             /\ lastOp' = [op |-> "mergeEdgySuperpixels"]
             /\ UNCHANGED storeVars
        ELSE \E shouldMerge \in BOOLEAN :
               LET mergeNeighbor == Head(strategy.results)[3]
                   gone == CoordsSize(tagToSuperpixelMap, tag) <
                           CoordsSize(tagToSuperpixelMap, mergeNeighbor)
                   pair == [tag |-> tag, mergeNeighbor |-> mergeNeighbor,
                            table |-> strategy.edgySuperpixelsTable]
               IN IF ~shouldMerge
                  THEN /\ strategy' = [afterLoop EXCEPT !.rejected = TRUE,
                                         !.step = PassLocals("reject", {})]
                       /\ lastOp' = [op |-> "mergeEdgySuperpixels"]
                       /\ UNCHANGED storeVars
                  ELSE /\ MergeEdge(tag, mergeNeighbor)
                       /\ strategy' =
                            IF gone
                            THEN [strategy EXCEPT !.at = "edgy", !.results = <<>>,
                                    !.merged = TRUE,
                                    !.edgySuperpixelsTable = @ \ {tag},
                                    !.step = PassLocals("merge", {}) @@ pair]
                            ELSE [strategy EXCEPT !.results = Tail(@), !.merged = TRUE,
                                    !.edgySuperpixelsTable = @ \ {mergeNeighbor},
                                    !.step = PassLocals("merge", {}) @@ pair]
  /\ UNCHANGED <<locked, histWeights>>

(* --------------------------- the weight histories ---------------------- *)

\* at most MaxRecorded edge weights are recorded on the regions of an image
MaxRecorded == 2

\* the vectors of edge weights addUnmergedEdgeWeights is called with
UnmergedVectors ==
  {<<w>> : w \in EdgeWeights} \cup
  {<<w1, w2>> : w1 \in EdgeWeights, w2 \in EdgeWeights}

\* SuperpixelEdgeFuncs::addMergedEdgeWeight: the weight of an edge that was
\* accepted as a merge is added to the history of the superpixel
addMergedEdgeWeight(map, tag, edgeWeight) ==
  [map EXCEPT ![tag].mergedEdgeWeights = Append(@, edgeWeight)]

\* SuperpixelEdgeFuncs::addUnmergedEdgeWeights: the weights of the edges that
\* were not merged are added to the history of the superpixel
addUnmergedEdgeWeights(map, tag, edgeWeights) ==
  [map EXCEPT ![tag].unmergedEdgeWeights = @ \o edgeWeights]

\* what is known of the histories from outside the store: the weights that
\* were recorded under every tag of the image, the tags whose superpixels
\* were merged into every superpixel, and the table as the last mergeEdge
\* found it
WeightsRecorded ==
  IF strategy.at = "record" THEN strategy
  ELSE [at |-> "record", numRecorded |-> 0,
        recordedMerged |-> [t \in DOMAIN tagToSuperpixelMap |-> <<>>],
        recordedUnmerged |-> [t \in DOMAIN tagToSuperpixelMap |-> <<>>],
        mergedInto |-> [t \in DOMAIN tagToSuperpixelMap |-> {t}],
        before |-> tagToSuperpixelMap]

\* mergeBredthFirstRecursive records the weight of the edge it is about to
\* merge on maxTag
RecordMergedWeight ==
  /\ pc = "parsed"
  /\ strategy.at \in {"idle", "record"}
  /\ WeightsRecorded.numRecorded < MaxRecorded
  /\ \E maxTag \in DOMAIN tagToSuperpixelMap, edgeWeight \in EdgeWeights :
       /\ tagToSuperpixelMap' = addMergedEdgeWeight(tagToSuperpixelMap, maxTag, edgeWeight)
       /\ strategy' = [WeightsRecorded EXCEPT
                         !.numRecorded = @ + 1,
                         !.recordedMerged[maxTag] = Append(@, edgeWeight)]
       /\ lastOp' = [op |-> "addMergedEdgeWeight", tag |-> maxTag]
  /\ UNCHANGED <<tags, superpixels, neighbors, edgeStrengthMap, pc, locked, histWeights>>

\* mergeBredthFirstRecursive records the weights of the edges of maxTag it
\* did not merge
RecordUnmergedWeights ==
  /\ pc = "parsed"
  /\ strategy.at \in {"idle", "record"}
  /\ \E maxTag \in DOMAIN tagToSuperpixelMap, unmergedEdgeWeights \in UnmergedVectors :
       /\ WeightsRecorded.numRecorded + Len(unmergedEdgeWeights) <= MaxRecorded
       /\ tagToSuperpixelMap' =
            addUnmergedEdgeWeights(tagToSuperpixelMap, maxTag, unmergedEdgeWeights)
       /\ strategy' = [WeightsRecorded EXCEPT
                         !.numRecorded = @ + Len(unmergedEdgeWeights),
                         !.recordedUnmerged[maxTag] = @ \o unmergedEdgeWeights]
       /\ lastOp' = [op |-> "addUnmergedEdgeWeights", tag |-> maxTag]
  /\ UNCHANGED <<tags, superpixels, neighbors, edgeStrengthMap, pc, locked, histWeights>>

\* mergeEdge on an edge of the image, on superpixels that have histories
MergeRecorded ==
  /\ strategy.at \in {"idle", "record"}
  /\ \E A \in DOMAIN tagToSuperpixelMap :
       \E B \in Range(GetNeighbors(neighbors, A)) : MergeEdge(A, B)
  /\ strategy' = [WeightsRecorded EXCEPT
                    !.before = tagToSuperpixelMap,
                    !.mergedInto = IF pc' = "parsed"
                                   THEN [@ EXCEPT ![lastOp'.dst] = @ \cup WeightsRecorded.mergedInto[lastOp'.src]]
                                   ELSE @]
  /\ UNCHANGED <<locked, histWeights>>

(* ---------------------- mergeBredthFirstRecursive ---------------------- *)

\* the number of the percentage range nearest to count / N:
\* round(per / oneRange) for per = count / N and oneRange = 1 / numPercentRanges
RoundedPercent(count, N) == (2 * numPercentRanges * count + N) \div (2 * N)

\* numTopPercent of the call of backprojectNeighborSuperpixels
bredthNumTopPercent == 10

\* TRUE when elem1 goes before elem2: the larger rounded percentage first, on
\* a tie the larger N; a tuple is <<range, N, tag>> and stands for
\* (range * oneRange, N, tag)
CompareRoundedTupleDecreasingFunc(elem1, elem2) ==
  IF elem1[1] = elem2[1] THEN elem1[2] > elem2[2] ELSE elem1[1] > elem2[1]

\* the orders std::sort can leave the rounded tuples in
RECURSIVE SortedDecreasingRounded(_)
SortedDecreasingRounded(results) ==
  IF results = {} THEN {<<>>}
  ELSE UNION {{<<e>> \o rest : rest \in SortedDecreasingRounded(results \ {e})} :
                e \in {f \in results :
                         \A u \in results : ~CompareRoundedTupleDecreasingFunc(u, f)}}

\* the tuples of the unlocked neighbors whose percentage passes, with the
\* percentage rounded, before the sort
backprojectNeighborSuperpixelsRounded(map, nbrs, lockedTable, tag, count, numTopPercent) ==
  {<<RoundedPercent(count[n], CoordsSize(map, n)), CoordsSize(map, n), n>> :
     n \in {u \in UnlockedNeighbors(nbrs, lockedTable, tag) :
              PassesMinPercent(count[u], CoordsSize(map, u), numTopPercent)}}

\* a variant that puts every tuple into the first bin
FirstBin_All(resultTuples) == resultTuples

\* tuplesSplitIntoBins[0]: the tuples from the first one up to the first
\* tuple whose percentage differs from the percentage of the one after it
FirstBin(resultTuples) ==
  LET differs == {i \in 1..(Len(resultTuples) - 1) :
                    resultTuples[i][1] # resultTuples[i + 1][1]}
      last == IF differs = {} THEN Len(resultTuples)
              ELSE CHOOSE i \in differs : \A j \in differs : i <= j
  IN SubSeq(resultTuples, 1, last)

\* the loop that looks for the next unlocked tag of sortedSuperpixels:
\* locked[nextTag] makes an entry of value false for a tag that has none;
\* unset holds the keys of value false
RECURSIVE NextUnlockedBredthFirst(_, _, _, _)
NextUnlockedBredthFirst(sortedSuperpixels, spIter, lockedTable, unset) ==
  IF spIter > Len(sortedSuperpixels)
  THEN [maxTag |-> NoTag, spIter |-> spIter, locked |-> lockedTable, unset |-> unset]
  ELSE LET nextTag == sortedSuperpixels[spIter]
           unset1 == IF nextTag \in lockedTable THEN unset ELSE unset \cup {nextTag}
           locked1 == lockedTable \cup {nextTag}
       IN IF nextTag \notin unset1
          THEN NextUnlockedBredthFirst(sortedSuperpixels, spIter + 1, locked1, unset1)
          ELSE [maxTag |-> nextTag, spIter |-> spIter + 1, locked |-> locked1,
                unset |-> unset1]

\* the weights of the edges from tag to the neighbors of the vector, in its
\* order, as cached in the map of edge strengths
CachedWeights(esm, tag, neighborsVec) ==
  [i \in 1..Len(neighborsVec) |-> esm[SuperpixelEdge(tag, neighborsVec[i])]]

\* the call: the superpixels of the list passed in are locked and the
\* regions are sorted by size
MergeBredthFirstStart ==
  /\ pc = "parsed"
  /\ strategy.at = "idle"
  /\ \E largeSuperpixels \in {{}} \cup {{t} : t \in DOMAIN tagToSuperpixelMap} :
       LET sorted == SortBySize(tagToSuperpixelMap, Range(superpixels))
       IN /\ superpixels' = sorted
          /\ locked' = largeSuperpixels
          /\ strategy' = [at |-> "bredthScan", maxTag |-> NoTag,
                          largeSuperpixels |-> largeSuperpixels,
                          sortedSuperpixels |-> sorted, spIter |-> 1, unset |-> {},
                          mergesSinceLockClear |-> {},
                          resultTuples |-> <<>>, edgeWeightSortedTuples |-> <<>>,
                          unmergedEdgeWeights |-> <<>>,
                          mergeNeighbor |-> NoTag,
                          step |-> [did |-> "none"]]
  /\ histWeights' = <<>>
  /\ lastOp' = [op |-> "mergeBredthFirstRecursive"]
  /\ UNCHANGED <<tags, tagToSuperpixelMap, neighbors, edgeStrengthMap, pc>>

\* the head of the outer loop: the next unlocked tag of the sorted vector is
\* selected, and the strategy returns when the vector is exhausted
MergeBredthFirstScan ==
  /\ pc = "parsed"
  /\ strategy.at = "bredthScan"
  /\ LET r == NextUnlockedBredthFirst(strategy.sortedSuperpixels, strategy.spIter,
                                      locked, strategy.unset)
     IN /\ locked' = r.locked
        /\ strategy' = [strategy EXCEPT
                          !.at = IF r.maxTag = NoTag THEN "done" ELSE "bredthVisit",
                          !.maxTag = r.maxTag, !.spIter = r.spIter, !.unset = r.unset,
                          !.step = PassLocals(IF r.maxTag = NoTag THEN "return" ELSE "select",
                                              {})]
  /\ lastOp' = [op |-> "mergeBredthFirstRecursive"]
  /\ UNCHANGED <<storeVars, histWeights>>

\* the head of the inner loop on maxTag: it ends when maxTag is no longer in
\* the table; the weights of the edges to the neighbors that have none are
\* computed and cached; without a result maxTag is locked, and the weights
\* of its edges are added to its unmerged weights when it has none;
\* otherwise the weights of the edges to the neighbors that are not in the
\* results are added to the unmerged weights, and the tuples of the first
\* bin, sorted by edge weight, are the edges to go through
MergeBredthFirstVisit ==
  /\ pc = "parsed"
  /\ strategy.at = "bredthVisit"
  /\ LET maxTag == strategy.maxTag
     IN IF getSuperpixelPtr(maxTag) = NULL
        THEN /\ strategy' = [strategy EXCEPT !.at = "bredthScan",
                               !.step = PassLocals("gone", {})]
             /\ UNCHANGED <<locked, tagToSuperpixelMap, edgeStrengthMap>>
        ELSE LET neighborsVec == GetNeighbors(neighbors, maxTag)
                 uncached == {SuperpixelEdge(maxTag, n) : n \in Range(neighborsVec)}
                               \ DOMAIN edgeStrengthMap
             IN \E count \in BackProjections(tagToSuperpixelMap, neighbors, locked, maxTag),
                   computed \in [uncached -> EdgeWeights] :
                  LET results == backprojectNeighborSuperpixelsRounded(tagToSuperpixelMap,
                                   neighbors, locked, maxTag, count, bredthNumTopPercent)
                      esm == edgeStrengthMap @@ computed
                      spPtr == tagToSuperpixelMap[maxTag]
                  IN /\ edgeStrengthMap' = esm
                     /\ IF results = {}
                        THEN /\ tagToSuperpixelMap' =
                                  IF spPtr.unmergedEdgeWeights = <<>>
                                  THEN addUnmergedEdgeWeights(tagToSuperpixelMap, maxTag,
                                         CachedWeights(esm, maxTag, neighborsVec))
                                  ELSE tagToSuperpixelMap
                             /\ locked' = LockTag(locked, maxTag)
                             /\ strategy' = [strategy EXCEPT !.at = "bredthScan",
                                               !.unset = @ \ {maxTag},
                                               !.resultTuples = <<>>,
                                               !.step = PassLocals("lock", {})]
                        ELSE \E resultTuples \in SortedDecreasingRounded(results) :
                               LET mightBeMerged == {t[3] : t \in results}
                                   others == SelectSeq(neighborsVec,
                                               LAMBDA n : n \notin mightBeMerged)
                                   currentBin == FirstBin(resultTuples)
                                   edgeWeightTuples ==
                                     {<<esm[SuperpixelEdge(maxTag, t[3])], t[2], t[3]>> :
                                        t \in Range(currentBin)}
                               IN \E sortedTuples \in SortedIncreasing(edgeWeightTuples) :
                                    /\ tagToSuperpixelMap' =
                                         IF others # <<>>
                                         THEN addUnmergedEdgeWeights(tagToSuperpixelMap, maxTag,
                                                CachedWeights(esm, maxTag, others))
                                         ELSE tagToSuperpixelMap
                                    /\ strategy' = [strategy EXCEPT !.at = "bredthBin",
                                                      !.resultTuples = resultTuples,
                                                      !.edgeWeightSortedTuples = sortedTuples,
                                                      !.unmergedEdgeWeights = <<>>,
                                                      !.step = PassLocals("results", {})]
                                    /\ UNCHANGED locked
  /\ lastOp' = [op |-> "mergeBredthFirstRecursive"]
  /\ UNCHANGED <<tags, superpixels, neighbors, pc, histWeights>>

\* one pass of the loop over the edges of the bin: once an edge weight was
\* put aside as unmerged every further one is; otherwise the edge weight is
\* put aside and maxTag locked when shouldMergeEdge rejects it, and added to
\* the merged weights of maxTag when it accepts, the edge being merged next.
\* After the last edge the weights put aside are added to the unmerged
\* weights of maxTag and the inner loop ends, or it goes on when there are
\* none.  Superpixel::shouldMergeEdge gives either answer.
MergeBredthFirstBin ==
  /\ pc = "parsed"
  /\ strategy.at = "bredthBin"
  /\ LET maxTag == strategy.maxTag
     IN IF strategy.edgeWeightSortedTuples = <<>>
        THEN IF strategy.unmergedEdgeWeights # <<>>
             THEN /\ tagToSuperpixelMap' = addUnmergedEdgeWeights(tagToSuperpixelMap, maxTag,
                                             strategy.unmergedEdgeWeights)
                  /\ strategy' = [strategy EXCEPT !.at = "bredthScan",
                                    !.step = PassLocals("strong", {}) @@
                                             [unmergedEdgeWeights |->
                                                strategy.unmergedEdgeWeights]]
                  /\ UNCHANGED locked
             ELSE /\ strategy' = [strategy EXCEPT !.at = "bredthVisit",
                                    !.step = PassLocals("again", {})]
                  /\ UNCHANGED <<tagToSuperpixelMap, locked>>
        ELSE LET tuple == Head(strategy.edgeWeightSortedTuples)
                 rest == Tail(strategy.edgeWeightSortedTuples)
                 mergeNeighbor == tuple[3]
                 edgeWeight == tuple[1]
             IN IF strategy.unmergedEdgeWeights # <<>>
                THEN /\ strategy' = [strategy EXCEPT
                                       !.edgeWeightSortedTuples = rest,
                                       !.unmergedEdgeWeights = Append(@, edgeWeight),
                                       !.step = PassLocals("unmerged", {})]
                     /\ UNCHANGED <<tagToSuperpixelMap, locked>>
                ELSE \E shouldMerge \in BOOLEAN :
                       IF ~shouldMerge
                       THEN /\ locked' = LockTag(locked, maxTag)
                            /\ strategy' = [strategy EXCEPT
                                              !.edgeWeightSortedTuples = rest,
                                              !.unmergedEdgeWeights = Append(@, edgeWeight),
                                              !.unset = @ \ {maxTag},
                                              !.step = PassLocals("reject", {})]
                            /\ UNCHANGED tagToSuperpixelMap
                       ELSE /\ tagToSuperpixelMap' =
                                 addMergedEdgeWeight(tagToSuperpixelMap, maxTag, edgeWeight)
                            /\ strategy' = [strategy EXCEPT !.at = "bredthMerge",
                                              !.edgeWeightSortedTuples = rest,
                                              !.mergeNeighbor = mergeNeighbor,
                                              !.step = PassLocals("accept", {})]
                            /\ UNCHANGED locked
  /\ lastOp' = [op |-> "mergeBredthFirstRecursive"]
  /\ UNCHANGED <<tags, superpixels, neighbors, edgeStrengthMap, pc, histWeights>>

\* the merge of the edge that shouldMergeEdge accepted; maxTag is noted in
\* mergesSinceLockClear
MergeBredthFirstMerge ==
  /\ pc = "parsed"
  /\ strategy.at = "bredthMerge"
  /\ MergeEdge(strategy.maxTag, strategy.mergeNeighbor)
  /\ strategy' = [strategy EXCEPT !.at = "bredthBin",
                    !.mergesSinceLockClear = @ \cup {strategy.maxTag},
                    !.step = PassLocals("merge", {}) @@
                             [maxTag |-> strategy.maxTag,
                              mergeNeighbor |-> strategy.mergeNeighbor]]
  /\ UNCHANGED <<locked, histWeights>>

(* ------------------------------ the spec ------------------------------- *)

Init ==
  /\ tags = <<>>
  /\ tagToSuperpixelMap = <<>>
  /\ superpixels = <<>>
  /\ neighbors = <<>>
  /\ edgeStrengthMap = <<>>
  /\ pc = "new"
  /\ lastOp = [op |-> "none"]
  /\ locked = {}
  /\ histWeights = <<>>
  /\ strategy = [at |-> "idle"]

AllTags == {l + 1 : l \in InputLabels \ {ReservedTag}}

\* parse is called once, on the store as constructed
ParseImage == pc = "new" /\ \E img \in InputImages : Parse(img)

Next ==
  \/ ParseImage /\ UNCHANGED strategyVars
  \/ \E A \in AllTags, B \in AllTags : MergeEdge(A, B) /\ UNCHANGED strategyVars
  \/ \E tag \in AllTags, n \in AllTags, w \in Weights :
       CacheEdgeWeight(tag, n, w) /\ UNCHANGED strategyVars

Spec == Init /\ [][Next]_vars

\* the store with sortSuperpixelsBySize among its operations
NextSort ==
  \/ Next
  \/ SortSuperpixelsBySize /\ UNCHANGED strategyVars

SpecSort == Init /\ [][NextSort]_vars

\* pos_sample_within_bound applied to every history and candidate weight
SpecBound == Init /\ [][PosSampleWithinBound]_vars

\* label images of up to MaxShapeLabel + 1 regions
MaxShapeLabel == 3

\* TRUE when the labels are numbered in the order of their first pixel in
\* scan order, as a labelling pass over an image numbers them
NumberedInScanOrder(img) ==
  \A i \in 1..(Rows * Cols) :
    \/ Vec3BToUID(img[PixelOrder[i]]) = 0
    \/ \E j \in 1..(i - 1) :
         Vec3BToUID(img[PixelOrder[j]]) + 1 >= Vec3BToUID(img[PixelOrder[i]])

ShapeImages ==
  {img \in [Coords -> {TagToVec3b(l) : l \in 0..MaxShapeLabel}] : NumberedInScanOrder(img)}

ParseShapes == pc = "new" /\ \E img \in ShapeImages : Parse(img)

\* parse, then one run of mergeAlikeSuperpixels
NextGreedy ==
  \/ ParseShapes /\ UNCHANGED strategyVars
  \/ MergeAlikeStart
  \/ MergeAlikeSelect
  \/ MergeAlikeStep

SpecGreedy == Init /\ [][NextGreedy]_vars

\* parse, then one run of mergeBackprojectSuperpixels
NextBackproject ==
  \/ ParseShapes /\ UNCHANGED strategyVars
  \/ MergeBackprojectStart
  \/ MergeBackprojectScan
  \/ MergeBackprojectNeighbors
  \/ MergeBackprojectEach

SpecBackproject == Init /\ [][NextBackproject]_vars

\* parse, then one run of mergeBackprojectSmallestSuperpixels
NextSmallest ==
  \/ ParseShapes /\ UNCHANGED strategyVars
  \/ MergeSmallestStart
  \/ MergeSmallestSelect
  \/ MergeSmallestStep

SpecSmallest == Init /\ [][NextSmallest]_vars

\* parse, then one run of fillMergeBackprojectSuperpixels
NextFill ==
  \/ ParseShapes /\ UNCHANGED strategyVars
  \/ FillMergeStart
  \/ FillMergeSelect
  \/ FillMergeSearch
  \/ FillMergeEach

SpecFill == Init /\ [][NextFill]_vars

\* parse, then one run of one of the four strategies
NextStrategies ==
  \/ NextGreedy
  \/ MergeBackprojectStart
  \/ MergeBackprojectScan
  \/ MergeBackprojectNeighbors
  \/ MergeBackprojectEach
  \/ MergeSmallestStart
  \/ MergeSmallestSelect
  \/ MergeSmallestStep
  \/ FillMergeStart
  \/ FillMergeSelect
  \/ FillMergeSearch
  \/ FillMergeEach

SpecStrategies == Init /\ [][NextStrategies]_vars

\* parse, then one run of a traversal of a work list made before its merges
NextWorklists ==
  \/ ParseShapes /\ UNCHANGED strategyVars
  \/ MergeIdenticalStart
  \/ MergeIdenticalNext
  \/ MergeIdenticalNeighbor
  \/ MergeSmallStart
  \/ MergeSmallNext
  \/ MergeBackprojectStart
  \/ MergeBackprojectScan
  \/ MergeBackprojectNeighbors
  \/ MergeBackprojectEach

SpecWorklists == Init /\ [][NextWorklists]_vars

\* the choice of mergeSmallSuperpixels for every small neighborhood
SpecSmallChoice == Init /\ [][ChooseSmallNeighbor]_vars

\* parse, then one run of mergeEdgySuperpixels
NextEdgy ==
  \/ ParseShapes /\ UNCHANGED strategyVars
  \/ MergeEdgyStart
  \/ MergeEdgyNext
  \/ MergeEdgyEach

SpecEdgy == Init /\ [][NextEdgy]_vars

\* the label images the weights are recorded on have the labels
\* 0..MaxRecordedLabel
MaxRecordedLabel == 2

RecordedImages ==
  {img \in ShapeImages : \A c \in Coords : Vec3BToUID(img[c]) <= MaxRecordedLabel}

ParseRecorded == pc = "new" /\ \E img \in RecordedImages : Parse(img)

\* parse, then edge weights recorded on the superpixels and edges merged
NextHistory ==
  \/ ParseRecorded /\ UNCHANGED strategyVars
  \/ RecordMergedWeight
  \/ RecordUnmergedWeights
  \/ MergeRecorded

SpecHistory == Init /\ [][NextHistory]_vars

\* the lengths of the runs of equal labels in a label image of one row
RunLengths == {1, 4, 12, 30}

\* a label image of one row has at most MaxRuns runs
MaxRuns == 4

\* the label images of one row, each given by the lengths of its runs; the
\* labels of the runs are 0, 1, ... from the left
RowImages == UNION {[1..k -> RunLengths] : k \in 1..MaxRuns}

\* the x of the first pixel of run i
RECURSIVE RunStart(_, _)
RunStart(runs, i) == IF i = 1 THEN 0 ELSE RunStart(runs, i - 1) + runs[i - 1]

\* parse of the label image of one row with the given runs: the pixels of
\* run i get tag i and make up the coords of its Superpixel in scan order,
\* superpixels holds the tags in ascending order, and the neighbors of a tag
\* are the run on its left, found first, and the run on its right
ParseRow(runs) ==
  /\ pc = "new"
  /\ LET k == Len(runs)
         width == RunStart(runs, k) + runs[k]
         runAt == [x \in 0..(width - 1) |->
                     CHOOSE i \in 1..k : RunStart(runs, i) <= x /\ x < RunStart(runs, i) + runs[i]]
     IN /\ tags' = [p \in (0..(width - 1)) \X {0} |-> TagToVec3b(runAt[p[1]])]
        /\ tagToSuperpixelMap' =
             [i \in 1..k |->
                [NewSuperpixel(i) EXCEPT
                   !.coords = [j \in 1..runs[i] |-> <<RunStart(runs, i) + j - 1, 0>>]]]
        /\ superpixels' = [i \in 1..k |-> i]
        /\ neighbors' = [i \in 1..k |->
                           (IF i > 1 THEN <<i - 1>> ELSE <<>>) \o
                           (IF i < k THEN <<i + 1>> ELSE <<>>)]
        /\ pc' = "parsed"
  /\ lastOp' = [op |-> "parse", runs |-> runs]
  /\ UNCHANGED edgeStrengthMap

ParseRows == pc = "new" /\ \E runs \in RowImages : ParseRow(runs)

\* parse of a label image of one row, then one run of mergeSmallSuperpixels
NextSmallRows ==
  \/ ParseRows /\ UNCHANGED strategyVars
  \/ MergeSmallStart
  \/ MergeSmallNext

SpecSmallRows == Init /\ [][NextSmallRows]_vars

\* parse, then one run of mergeBredthFirstRecursive
NextBredthFirst ==
  \/ ParseRecorded /\ UNCHANGED strategyVars
  \/ MergeBredthFirstStart
  \/ MergeBredthFirstScan
  \/ MergeBredthFirstVisit
  \/ MergeBredthFirstBin
  \/ MergeBredthFirstMerge

SpecBredthFirst == Init /\ [][NextBredthFirst]_vars

(* ------------------------------ properties ----------------------------- *)

ActiveTags == DOMAIN tagToSuperpixelMap

NumCoords(tag) == Len(tagToSuperpixelMap[tag].coords)

RECURSIVE SumCoords(_)
SumCoords(S) ==
  IF S = {} THEN 0
  ELSE LET t == CHOOSE u \in S : TRUE
       IN NumCoords(t) + SumCoords(S \ {t})

\* the store was parsed and no assert has failed
Parsed == pc = "parsed"

\* the last operation was a mergeEdge that ran to its end
Merged == pc = "parsed" /\ lastOp.op = "mergeEdge"

NumLabels == Cardinality({tags[p] : p \in DOMAIN tags})

NoDuplicates(vec) == \A i, j \in 1..Len(vec) : vec[i] = vec[j] => i = j

IsAscending(vec) == \A i \in 1..(Len(vec) - 1) : vec[i] < vec[i + 1]

\* C1: after parse and after any sequence of completed merges the coordinate
\* counts of the active regions add up to the pixel count of the image, and
\* the coordinates held are exactly the pixels of the image
C1_TotalCoordsInvariant ==
  Parsed =>
    /\ SumCoords(ActiveTags) = Rows * Cols
    /\ UNION {Range(tagToSuperpixelMap[t].coords) : t \in ActiveTags} = Coords

\* two merges in a row have taken a three-label image down to one region
C1_Witness == Merged /\ NumLabels = 3 /\ Cardinality(ActiveTags) = 1

\* a mergeEdge call ended in a failed assert
MergeAborted == pc = "aborted" /\ lastOp.op = "mergeEdge"

\* C2: after a completed mergeEdge(A, B) exactly one of A and B is active, it
\* holds numCoordsA + numCoordsB coords and getSuperpixelPtr of the other is
\* NULL; and a mergeEdge on two distinct, live, adjacent regions does
\* complete: one that ended in a failed assert was called with A = B, with a
\* tag that is not live, or with two regions that were not adjacent
C2_OneSurvivorWithSum ==
  /\ Merged =>
        LET A == lastOp.A
            B == lastOp.B
        IN /\ (getSuperpixelPtr(A) # NULL) # (getSuperpixelPtr(B) # NULL)
           /\ \A t \in {A, B} :
                getSuperpixelPtr(t) # NULL =>
                  NumCoords(t) = lastOp.numCoordsA + lastOp.numCoordsB
           /\ \E t \in {A, B} : getSuperpixelPtr(t) = NULL
  /\ MergeAborted =>
        \/ lastOp.src = NULL
        \/ ~Contains(lastOp.neighborsDst, lastOp.src)

\* a merge of a region of 1 coord with one of 3 or more coords has completed
C2_Witness ==
  /\ Merged
  /\ lastOp.numCoordsA = 1
  /\ lastOp.numCoordsB >= 3
  /\ getSuperpixelPtr(lastOp.B) # NULL

\* C3: adjacency is mutual and names active tags only, and every active tag
\* has an adjacency row
C3_AdjacencySymmetric ==
  Parsed =>
    /\ DOMAIN neighbors = ActiveTags
    /\ \A X \in DOMAIN neighbors : \A Y \in Range(neighbors[X]) :
         /\ Y \in ActiveTags
         /\ Y \in DOMAIN neighbors
         /\ X \in Range(neighbors[Y])

\* a merge has given dst a neighbor of src that dst did not have before
C3_Witness ==
  /\ Merged
  /\ \E n \in Range(lastOp.neighborsSrc) \ {lastOp.dst} :
       /\ n \notin Range(lastOp.neighborsDst)
       /\ n \in Range(neighbors[lastOp.dst])
       /\ lastOp.dst \in Range(neighbors[n])

\* C4: no tag is a member of its own neighbor row
C4_NoSelfAdjacency ==
  Parsed => \A X \in DOMAIN neighbors : X \notin Range(neighbors[X])

\* a merge has completed between two regions with a common neighbor
C4_Witness ==
  /\ Merged
  /\ Cardinality(ActiveTags) = 2
  /\ \E n \in Range(lastOp.neighborsSrc) \ {lastOp.dst} : n \in Range(lastOp.neighborsDst)

\* C5: the region with more coords survives, and A survives a tie
C5_LargerSurvivesTieToA ==
  Merged =>
    IF lastOp.numCoordsA >= lastOp.numCoordsB
    THEN getSuperpixelPtr(lastOp.A) # NULL /\ getSuperpixelPtr(lastOp.B) = NULL
    ELSE getSuperpixelPtr(lastOp.B) # NULL /\ getSuperpixelPtr(lastOp.A) = NULL

\* a tie in which the first argument is the larger tag
C5_Witness ==
  /\ Merged
  /\ lastOp.numCoordsA = lastOp.numCoordsB
  /\ lastOp.A > lastOp.B
  /\ getSuperpixelPtr(lastOp.A) # NULL

\* C6: after a completed merge every former neighbor of src other than dst is
\* a neighbor of dst and has dst as a neighbor, src is in no row and has no
\* row, and no row holds a tag twice
C6_NeighborsOfSrcMoved ==
  Merged =>
    LET src == lastOp.src
        dst == lastOp.dst
    IN /\ \A n \in Range(lastOp.neighborsSrc) \ {dst} :
            /\ n \in Range(GetNeighbors(neighbors, dst))
            /\ dst \in Range(GetNeighbors(neighbors, n))
       /\ src \notin DOMAIN neighbors
       /\ \A X \in DOMAIN neighbors : src \notin Range(neighbors[X])
       /\ \A X \in DOMAIN neighbors : NoDuplicates(neighbors[X])

\* src had a neighbor other than dst that was a neighbor of dst already, so a
\* push without the membership test would have duplicated it
C6_Witness ==
  /\ Merged
  /\ lastOp.numCoordsA + lastOp.numCoordsB = 3
  /\ \E n \in Range(lastOp.neighborsSrc) \ {lastOp.dst} :
       /\ n \in Range(lastOp.neighborsDst)
       /\ neighbors[lastOp.dst] = <<n>>

\* C7: the superpixels vector is in strictly ascending order after every
\* operation of the store, sortSuperpixelsBySize included
C7_ActiveListAscending == Parsed => IsAscending(superpixels)

\* C8: the cache holds no weight for an edge that names a tag that is no
\* longer active
C8_NoCachedWeightForDeadTag ==
  Parsed => \A key \in DOMAIN edgeStrengthMap : key \subseteq ActiveTags

\* a merge was entered with a cached weight for an edge from src to a region
\* other than dst
C8_Witness ==
  /\ Merged
  /\ \E key \in lastOp.strengthKeys : lastOp.src \in key /\ lastOp.dst \notin key

\* C9: after a completed merge the cache holds no weight for an edge of dst
C9_NoCachedWeightAtDst ==
  Merged => \A key \in DOMAIN edgeStrengthMap : lastOp.dst \notin key

\* a merge was entered with a cached weight for an edge from dst to a region
\* other than src
C9_Witness ==
  /\ Merged
  /\ \E key \in lastOp.strengthKeys : lastOp.dst \in key /\ lastOp.src \notin key

\* C10: every active region has a neighbor, unless it is the only active
\* region, and then it has none
C10_NeighborUnlessSole ==
  Parsed =>
    \A X \in ActiveTags :
      IF Cardinality(ActiveTags) = 1
      THEN GetNeighbors(neighbors, X) = <<>>
      ELSE Len(GetNeighbors(neighbors, X)) >= 1

\* a merge has left two regions whose only link was made by the merge
C10_Witness ==
  /\ Merged
  /\ Cardinality(ActiveTags) = 2
  /\ \E n \in Range(lastOp.neighborsSrc) \ {lastOp.dst} :
       n \notin Range(lastOp.neighborsDst) /\ neighbors[n] = <<lastOp.dst>>

\* C11: a tag that is the src of a completed merge is not in the table after
\* the merge, and a tag that is not in the table of a parsed store is not in
\* it after any step: getSuperpixelPtr of a merged-away tag stays NULL
C11_MergedAwayStaysAbsent ==
  [][\A t \in AllTags :
       ( \/ (pc = "parsed" /\ getSuperpixelPtr(t) = NULL)
         \/ (pc' = "parsed" /\ lastOp'.op = "mergeEdge" /\ lastOp' # lastOp
             /\ lastOp'.src = t) )
       => GetSuperpixelPtr(tagToSuperpixelMap', t) = NULL]_vars

\* operations of every kind have run on a store that has lost a tag
C11_Witness ==
  /\ Parsed
  /\ lastOp.op = "sortSuperpixelsBySize"
  /\ Cardinality(ActiveTags) < NumLabels
  /\ DOMAIN edgeStrengthMap # {}

\* the arguments mergeEdge must not be called with: A = B, a tag that is not
\* in the table, or two tags that are not in each other's neighbor row
InvalidMergeArgs(A, B) ==
  \/ A = B
  \/ getSuperpixelPtr(A) = NULL
  \/ getSuperpixelPtr(B) = NULL
  \/ ~Contains(GetNeighbors(neighbors, A), B)
  \/ ~Contains(GetNeighbors(neighbors, B), A)

\* C12: a mergeEdge call with invalid arguments ends at a failed assert and
\* no region is removed from the table
C12_InvalidMergeAborts ==
  [][(lastOp'.op = "mergeEdge" /\ InvalidMergeArgs(lastOp'.A, lastOp'.B))
       => (pc' = "aborted" /\ DOMAIN tagToSuperpixelMap' = DOMAIN tagToSuperpixelMap)]_vars

\* a call on two live regions that are not adjacent has been aborted
C12_Witness ==
  /\ MergeAborted
  /\ lastOp.src # NULL
  /\ ~Contains(lastOp.neighborsDst, lastOp.src)

\* the labels of an input image and the tag parse gives to a pixel
LabelsOf(img) == {Vec3BToUID(img[p]) : p \in Coords}

TagOf(img, p) == Vec3BToUID(img[p]) + 1

\* C13: parse of an image without the reserved label makes one region per
\* label, the coords of a region are exactly the pixels of its label, the
\* coords count up to Rows*Cols and superpixels is in ascending tag order
C13_ParseOneRegionPerLabel ==
  (lastOp.op = "parse" /\ ReservedTag \notin LabelsOf(lastOp.img)) =>
    /\ pc = "parsed"
    /\ ActiveTags = {l + 1 : l \in LabelsOf(lastOp.img)}
    /\ Cardinality(ActiveTags) = Cardinality(LabelsOf(lastOp.img))
    /\ \A t \in ActiveTags :
         /\ tagToSuperpixelMap[t].tag = t
         /\ NoDuplicates(tagToSuperpixelMap[t].coords)
         /\ Range(tagToSuperpixelMap[t].coords) = {p \in Coords : TagOf(lastOp.img, p) = t}
    /\ SumCoords(ActiveTags) = Rows * Cols
    /\ Range(superpixels) = ActiveTags
    /\ Len(superpixels) = Cardinality(ActiveTags)
    /\ IsAscending(superpixels)

\* an image of three labels, one of them with a carry into the second byte
C13_Witness ==
  /\ lastOp.op = "parse"
  /\ Parsed
  /\ Cardinality(ActiveTags) = 3
  /\ \E t \in ActiveTags : t > 255
  /\ \E t \in ActiveTags : Len(tagToSuperpixelMap[t].coords) > 1

\* the index in scan order of the first pixel with the reserved label
FirstReserved(img) ==
  CHOOSE i \in 1..(Rows * Cols) :
    /\ Vec3BToUID(img[PixelOrder[i]]) = ReservedTag
    /\ \A j \in 1..(i - 1) : Vec3BToUID(img[PixelOrder[j]]) # ReservedTag

\* C14: parse fails exactly when a pixel has the reserved label, and it stops
\* at the first such pixel: the pixels before it are relabelled and placed,
\* the ones from it on are untouched; a label L is stored as tag L + 1 and
\* every tag of the table is at least 1
C14_ReservedLabelFails ==
  /\ \A t \in ActiveTags : t >= 1
  /\ lastOp.op = "parse" =>
       /\ (pc = "failed") <=> (ReservedTag \in LabelsOf(lastOp.img))
       /\ \A t \in ActiveTags : \E p \in Coords : t = TagOf(lastOp.img, p)
       /\ pc = "failed" =>
            LET k == FirstReserved(lastOp.img)
            IN /\ \A i \in 1..(Rows * Cols) :
                    tags[PixelOrder[i]] =
                      IF i < k THEN TagToVec3b(TagOf(lastOp.img, PixelOrder[i]))
                      ELSE lastOp.img[PixelOrder[i]]
               /\ ActiveTags = {TagOf(lastOp.img, PixelOrder[i]) : i \in 1..(k - 1)}
               /\ \A t \in ActiveTags :
                    Range(tagToSuperpixelMap[t].coords) =
                      {PixelOrder[i] : i \in {j \in 1..(k - 1) : TagOf(lastOp.img, PixelOrder[j]) = t}}
               /\ superpixels = <<>>

\* parse has failed at a pixel that is not the first one
C14_Witness ==
  /\ lastOp.op = "parse"
  /\ pc = "failed"
  /\ Cardinality(ActiveTags) >= 2

\* two different pixels, one among the 8 pixels around the other
Adjacent8(p, q) ==
  /\ p # q
  /\ p[1] - q[1] \in {-1, 0, 1}
  /\ p[2] - q[2] \in {-1, 0, 1}

\* a pixel of tag A has a pixel of tag B among the 8 pixels around it
Touch(img, A, B) ==
  \E p \in Coords, q \in Coords :
    TagOf(img, p) = A /\ TagOf(img, q) = B /\ Adjacent8(p, q)

\* C15: after parse B is in the neighbor row of A exactly when A # B and a
\* pixel of A has a pixel of B among its 8 surrounding pixels, no row holds a
\* tag twice; an image of one label has one region with an empty row and an
\* image of two labels that touch has two regions, each the other's only
\* neighbor
C15_NeighborsAre8Adjacent ==
  (lastOp.op = "parse" /\ Parsed) =>
    /\ \A A \in ActiveTags :
         /\ NoDuplicates(GetNeighbors(neighbors, A))
         /\ \A B \in AllTags :
              Contains(GetNeighbors(neighbors, A), B) <=> (A # B /\ Touch(lastOp.img, A, B))
    /\ Cardinality(LabelsOf(lastOp.img)) = 1 =>
         /\ Cardinality(ActiveTags) = 1
         /\ \A A \in ActiveTags : GetNeighbors(neighbors, A) = <<>>
    /\ Cardinality(LabelsOf(lastOp.img)) = 2 =>
         /\ Cardinality(ActiveTags) = 2
         /\ \A A \in ActiveTags : Range(GetNeighbors(neighbors, A)) = ActiveTags \ {A}

\* two regions are neighbors whose pixels touch at corners only
C15_Witness ==
  /\ lastOp.op = "parse"
  /\ Parsed
  /\ \E A \in ActiveTags, B \in ActiveTags :
       /\ Contains(GetNeighbors(neighbors, A), B)
       /\ \A p \in Coords, q \in Coords :
            (TagOf(lastOp.img, p) = A /\ TagOf(lastOp.img, q) = B /\ Adjacent8(p, q))
              => (p[1] # q[1] /\ p[2] # q[2])

\* C16: after sortSuperpixelsBySize the superpixels vector holds each active
\* tag once, a region of more coords before one of fewer, and of two regions
\* of equal count the smaller tag first
C16_SortedBySizeThenTag ==
  (lastOp.op = "sortSuperpixelsBySize") =>
    /\ Range(superpixels) = ActiveTags
    /\ Len(superpixels) = Cardinality(ActiveTags)
    /\ \A i, j \in 1..Len(superpixels) :
         i < j => \/ NumCoords(superpixels[i]) > NumCoords(superpixels[j])
                  \/ /\ NumCoords(superpixels[i]) = NumCoords(superpixels[j])
                     /\ superpixels[i] < superpixels[j]

\* a sort that moved the largest tag to the front of two smaller tags of
\* equal count
C16_Witness ==
  /\ lastOp.op = "sortSuperpixelsBySize"
  /\ Len(superpixels) = 3
  /\ superpixels[1] > superpixels[2]
  /\ superpixels[2] < superpixels[3]
  /\ NumCoords(superpixels[2]) = NumCoords(superpixels[3])

\* a call of pos_sample_within_bound is the last operation
BoundCalled == lastOp.op = "pos_sample_within_bound"

\* C17 as stated: the function returns true for every history of length 0,
\* 1 or 2, whatever its values and the candidate weight
C17_ShortHistoryAccepts ==
  (BoundCalled /\ Len(lastOp.weights) <= 2) => lastOp.result.within

\* C17 as the code has it: the function returns true for every history of
\* length 0 or 2 and for a history of one weight that is not above 0.5,
\* whatever the candidate weight
C17_ShortHistoryAcceptsUnlessStrong ==
  ( /\ BoundCalled
    /\ Len(lastOp.weights) <= 2
    /\ ~(Len(lastOp.weights) = 1 /\ lastOp.weights[1] > StrongEdgeWeight) )
  => (lastOp.result.ok /\ lastOp.result.within)

\* a history of two strong weights accepts a candidate as strong as the last
C17_Witness ==
  /\ BoundCalled
  /\ Len(lastOp.weights) = 2
  /\ lastOp.weights[1] > StrongEdgeWeight
  /\ lastOp.weights[2] > lastOp.weights[1]
  /\ lastOp.currentWeight = lastOp.weights[2]
  /\ lastOp.result.within

\* C18: the function returns false for every history of exactly one weight
\* that is above 0.5, whatever the candidate weight
C18_SingleStrongWeightRejects ==
  ( /\ BoundCalled
    /\ Len(lastOp.weights) = 1
    /\ lastOp.weights[1] > StrongEdgeWeight )
  => (lastOp.result.ok /\ ~lastOp.result.within)

\* a history of one strong weight rejects the candidate weight 0
C18_Witness ==
  /\ BoundCalled
  /\ Len(lastOp.weights) = 1
  /\ lastOp.weights[1] > StrongEdgeWeight
  /\ lastOp.currentWeight = 0
  /\ ~lastOp.result.within

\* the store mergeAlikeSuperpixels was called on has four regions, one of
\* them larger than each of the three others
BackgroundAndThreeShapes(start) ==
  /\ Cardinality(DOMAIN start) = 4
  /\ \E bg \in DOMAIN start : \A t \in (DOMAIN start) \ {bg} : start[bg] > start[t]

\* C19: a run of mergeAlikeSuperpixels on a background and three small
\* regions, in which every weight compared was above 0.5, returns with the
\* background locked and the four regions active with their coords as at
\* the start
C19_DissimilarShapesStay ==
  ( /\ strategy.at = "done"
    /\ strategy.dissimilar
    /\ BackgroundAndThreeShapes(strategy.start) )
  => /\ ActiveTags = DOMAIN strategy.start
     /\ \A t \in ActiveTags : NumCoords(t) = strategy.start[t]
     /\ \A t \in ActiveTags : t \in locked

\* a pass of the inner loop of mergeAlikeSuperpixels is the last step
StepDone == strategy.at # "idle" /\ strategy.step.did # "none"

\* C20: a pass of the inner loop is made on the largest unlocked region; it
\* merges the region with the unlocked neighbor of the smallest weight (of
\* the largest count among equal weights) when pos_sample_within_bound
\* accepts that weight, and locks the region, changing no region, when the
\* function rejects or no neighbor is unlocked; every tag locked before the
\* pass is locked after it
C20_StepMergesOrLocks ==
  StepDone =>
    LET st == strategy.step
        maxTag == strategy.maxTag
    IN /\ st.lockedBefore \subseteq locked
       /\ maxTag \in (DOMAIN st.sizesBefore) \ st.lockedBefore
       /\ \A t \in (DOMAIN st.sizesBefore) \ st.lockedBefore :
            st.sizesBefore[t] <= st.sizesBefore[maxTag]
       /\ st.did \in {"merge", "lock"}
       /\ st.results = {} => st.did = "lock"
       /\ st.did = "lock" =>
            /\ locked = st.lockedBefore \cup {maxTag}
            /\ ActiveTags = DOMAIN st.sizesBefore
            /\ \A t \in ActiveTags : NumCoords(t) = st.sizesBefore[t]
            /\ \/ st.results = {}
               \/ ~pos_sample_within_bound(st.weights, st.minTuple[1]).within
       /\ st.did = "merge" =>
            /\ pc = "parsed"
            /\ st.minTuple \in st.results
            /\ \A u \in st.results :
                 \/ st.minTuple[1] < u[1]
                 \/ (st.minTuple[1] = u[1] /\ st.minTuple[2] >= u[2])
            /\ \A u \in st.results : u[3] \notin st.lockedBefore
            /\ pos_sample_within_bound(st.weights, st.minTuple[1]).within
            /\ locked = st.lockedBefore
            /\ ActiveTags = (DOMAIN st.sizesBefore) \ {st.minTuple[3]}
            /\ NumCoords(maxTag) = st.sizesBefore[maxTag] + st.sizesBefore[st.minTuple[3]]

\* a merge made after the rule rejected a weight and another region was locked
C20_Witness ==
  /\ StepDone
  /\ strategy.step.did = "merge"
  /\ strategy.step.lockedBefore # {}
  /\ \E t \in strategy.step.lockedBefore :
       t \in DOMAIN histWeights /\ histWeights[t] # <<>>

\* the strategy has returned
Returned == pc = "parsed" /\ strategy.at = "done"

\* the tags whose entry of the locked table is true
LockedTags == IF "unset" \in DOMAIN strategy THEN locked \ strategy.unset ELSE locked

\* C21: in the state in which mergeAlikeSuperpixels,
\* mergeBackprojectSuperpixels, fillMergeBackprojectSuperpixels or
\* mergeBackprojectSmallestSuperpixels returns, every active region is locked
\* in the locked table of the strategy
C21_ReturnsWithAllLocked == Returned => \A t \in ActiveTags : t \in LockedTags

\* mergeBackprojectSuperpixels returns after a lock clear, with two regions
\* left that no longer merge
C21_Witness ==
  /\ Returned
  /\ lastOp.op = "mergeBackprojectSuperpixels"
  /\ strategy.numLockClear >= 1
  /\ Cardinality(ActiveTags) >= 2

\* the iterator of mergeIdenticalSuperpixels or mergeSmallSuperpixels is on
\* a tag that is no longer in the table
AtAbsentTag ==
  /\ pc = "parsed"
  /\ strategy.at \in {"identical", "small"}
  /\ strategy.it <= Len(strategy.worklist)
  /\ getSuperpixelPtr(strategy.worklist[strategy.it]) = NULL

\* the iterator of mergeBackprojectSuperpixels is on a tag that is no longer
\* in the table
AtAbsentSorted ==
  /\ pc = "parsed"
  /\ strategy.at = "scan"
  /\ strategy.spIter <= Len(strategy.sortedSuperpixels)
  /\ getSuperpixelPtr(strategy.sortedSuperpixels[strategy.spIter]) = NULL

\* C22: a traversal that comes to a tag of its work list that is no longer
\* in the table passes over it: no region is merged, no assert fails and the
\* traversal goes on behind that tag
C22_AbsentIdSkipped ==
  [][/\ AtAbsentTag =>
          /\ tagToSuperpixelMap' = tagToSuperpixelMap
          /\ neighbors' = neighbors
          /\ pc' = "parsed"
          /\ strategy'.at = strategy.at
          /\ strategy'.it = strategy.it + 1
     /\ AtAbsentSorted =>
          /\ tagToSuperpixelMap' = tagToSuperpixelMap
          /\ neighbors' = neighbors
          /\ pc' = "parsed"
          /\ strategy.sortedSuperpixels[strategy.spIter] \in strategy'.step.skipped
          /\ strategy'.maxTag # strategy.sortedSuperpixels[strategy.spIter]
          /\ strategy'.at = "backproject" => strategy'.maxTag \in DOMAIN tagToSuperpixelMap]_vars

\* mergeIdenticalSuperpixels has passed over a tag that was merged away and
\* has tags left on its work list
C22_Witness ==
  /\ pc = "parsed"
  /\ strategy.at = "identical"
  /\ strategy.step.did = "skip"
  /\ strategy.it <= Len(strategy.worklist)

\* mergeBackprojectSuperpixels has ended a pass
PassExhausted(did) ==
  /\ pc = "parsed"
  /\ strategy.at \in {"scan", "done"}
  /\ "sortedSuperpixels" \in DOMAIN strategy
  /\ strategy.step.did = did

\* C23: when a pass of mergeBackprojectSuperpixels is exhausted, the locks
\* that are removed are those of regions that are in the table and have
\* merged a neighbor since the last lock clear, and every other lock is
\* kept; with no merge since the last clear the strategy returns and removes
\* no lock
C23_ClearsLocksOfMergedOnly ==
  /\ PassExhausted("clear") =>
       /\ strategy.step.merged # {}
       /\ locked \subseteq strategy.step.lockedBefore
       /\ strategy.step.lockedBefore \ locked = strategy.step.merged
       /\ strategy.step.merged \subseteq ActiveTags
  /\ PassExhausted("return") =>
       /\ strategy.mergesSinceLockClear = {}
       /\ strategy.step.lockedBefore \subseteq locked
       /\ strategy.at = "done"

\* a lock clear that removes a lock and keeps another one
C23_Witness ==
  /\ PassExhausted("clear")
  /\ strategy.step.lockedBefore \ locked # {}
  /\ locked \cap ActiveTags # {}

\* a merge step of mergeBackprojectSmallestSuperpixels has completed
SmallestMerged ==
  /\ pc = "parsed"
  /\ lastOp.op = "mergeEdge"
  /\ "minTag" \in DOMAIN strategy
  /\ strategy.step.did = "merge"

\* C24: after a merge of minTag with the chosen neighbor, minTag is no longer
\* in the table and the neighbor is
C24_MinTagMergedAway ==
  SmallestMerged =>
    /\ strategy.step.minTag \notin ActiveTags
    /\ strategy.step.mergeNeighbor \in ActiveTags

\* the first tag of the largest count when the strategy was called
LargestAtStart ==
  CHOOSE t \in DOMAIN strategy.start :
    \A u \in DOMAIN strategy.start :
      \/ strategy.start[u] < strategy.start[t]
      \/ strategy.start[u] = strategy.start[t] /\ u >= t

\* C25: in mergeBackprojectSmallestSuperpixels the region that is largest at
\* the call is locked from the first selection on, so before any merge, and
\* its count stays what it was at the call
C25_LargestStaysLocked ==
  (pc = "parsed" /\ "doLockMaxTag" \in DOMAIN strategy) =>
    /\ ~strategy.doLockMaxTag => LargestAtStart \in locked /\ strategy.largest = LargestAtStart
    /\ strategy.doLockMaxTag => ActiveTags = DOMAIN strategy.start
    /\ LargestAtStart \in ActiveTags
    /\ NumCoords(LargestAtStart) = strategy.start[LargestAtStart]

\* the strategy returns after merges and a lock clear, with a region left
\* next to the largest one
C25_Witness ==
  /\ Returned
  /\ "doLockMaxTag" \in DOMAIN strategy
  /\ strategy.numLockClear >= 1
  /\ Cardinality(ActiveTags) >= 2
  /\ Cardinality(ActiveTags) < Cardinality(DOMAIN strategy.start)

\* backprojectDepthFirstRecurseIntoNeighbors has returned to
\* fillMergeBackprojectSuperpixels
Searched ==
  /\ pc = "parsed"
  /\ "seeds" \in DOMAIN strategy
  /\ strategy.step.did = "search"

\* C26: the results of the depth first search for a seed hold no tag twice,
\* hold neither the seed nor a locked tag, and every tag of them has a
\* percentage above the threshold and is a neighbor of the seed or of a tag
\* that stands before it in the results
C26_FrontierOfSearch ==
  Searched =>
    LET seed == strategy.step.seed
        results == strategy.step.results
    IN /\ NoDuplicates(results)
       /\ \A i \in 1..Len(results) :
            /\ results[i] # seed
            /\ results[i] \notin strategy.step.lockedBefore
            /\ results[i] \in ActiveTags
            /\ strategy.step.count[results[i]] * 2 > NumCoords(results[i])
            /\ \/ Contains(GetNeighbors(neighbors, seed), results[i])
               \/ \E j \in 1..(i - 1) :
                    Contains(GetNeighbors(neighbors, results[j]), results[i])

\* a search that admits a region that is not a neighbor of the seed
C26_Witness ==
  /\ Searched
  /\ Len(strategy.step.results) >= 2
  /\ \E i \in 1..Len(strategy.step.results) :
       ~Contains(GetNeighbors(neighbors, strategy.step.seed), strategy.step.results[i])

\* C27: in fillMergeBackprojectSuperpixels no region is the seed of two
\* searches; a seed is locked from the end of the merges of its search on,
\* and when those merges are over every region of its results is merged away
\* and the seed is in the table
C27_SeedSearchedOnce ==
  "seeds" \in DOMAIN strategy =>
    /\ pc = "parsed"
    /\ NoDuplicates(strategy.seeds)
    /\ \A i \in 1..Len(strategy.seeds) :
         strategy.seeds[i] \notin locked => i = Len(strategy.seeds) /\ strategy.at = "fill"
    /\ (strategy.seeds # <<>> /\ strategy.at # "fill") =>
         /\ strategy.seeds[Len(strategy.seeds)] \in ActiveTags
         /\ \A i \in 1..Len(strategy.frontier) : strategy.frontier[i] \notin ActiveTags

\* the strategy returns after two searches, one of which merged two regions
\* into its seed
C27_Witness ==
  /\ Returned
  /\ "seeds" \in DOMAIN strategy
  /\ Len(strategy.seeds) >= 2
  /\ Cardinality(ActiveTags) + 2 <= Cardinality(DOMAIN strategy.start)

\* mergeSmallSuperpixels has chosen the neighbor to merge a small region with
SmallChosen == lastOp.op = "mergeSmallSuperpixels" /\ "minNeighbor" \in DOMAIN lastOp

\* C29: the neighbor that mergeSmallSuperpixels merges a small region with is
\* one that filterOutVeryLargeNeighbors did not flag, no unflagged neighbor
\* has a smaller compare weight, and no unflagged neighbor of the same weight
\* has fewer coords
C29_SmallestOfMostAlike ==
  SmallChosen =>
    LET compared == (DOMAIN lastOp.size) \ Range(lastOp.largeNeighbors)
        minNeighbor == lastOp.minNeighbor
    IN /\ minNeighbor \in compared
       /\ \A n \in compared :
            /\ lastOp.compar_bh[minNeighbor] <= lastOp.compar_bh[n]
            /\ lastOp.compar_bh[n] = lastOp.compar_bh[minNeighbor] =>
                 lastOp.size[minNeighbor] <= lastOp.size[n]

\* a run of mergeEdgySuperpixels is under way or has returned
EdgyRun == pc = "parsed" /\ "edgySuperpixelsTable" \in DOMAIN strategy

\* the regions of the table that were flagged edgy by the scan; the survivor
\* of a merge of two of them is one of them
EdgyActive == strategy.flagged \cap ActiveTags

\* both regions of the last merge were keys of the table when it was called
MergedEdgyPair ==
  (EdgyRun /\ strategy.step.did = "merge") =>
    /\ strategy.step.tag \in strategy.step.table
    /\ strategy.step.mergeNeighbor \in strategy.step.table
    /\ strategy.step.table \subseteq strategy.flagged

\* no edgy region of the table has an edgy region as neighbor
NoEdgyNeighbors ==
  \A t \in EdgyActive : \A n \in Range(GetNeighbors(neighbors, t)) : n \notin EdgyActive

\* the passes of the loop on the table that were begun, the one under way
\* not counted
PassesEnded == strategy.numPasses - (IF strategy.at = "edgyMerge" THEN 1 ELSE 0)

CountWeight(weightsSeq, w) == Cardinality({i \in 1..Len(weightsSeq) : weightsSeq[i] = w})

RECURSIVE CountRecorded(_, _, _)
\* the number of times weight w was recorded under the tags of the set
CountRecorded(recorded, tagSet, w) ==
  IF tagSet = {} THEN 0
  ELSE LET u == CHOOSE x \in tagSet : TRUE
       IN CountWeight(recorded[u], w) + CountRecorded(recorded, tagSet \ {u}, w)

\* C30: after mergeEdge the merged-weight history of dst is the one it had
\* followed by the one src had, and so is its unmerged-weight history; after
\* any merges the histories of a superpixel hold every weight recorded under
\* the tags of the superpixels merged into it
C30_HistoriesAppended ==
  (strategy.at = "record" /\ pc = "parsed") =>
    /\ lastOp.op = "mergeEdge" =>
         LET dstNow == tagToSuperpixelMap[lastOp.dst]
             dstBefore == strategy.before[lastOp.dst]
             srcBefore == strategy.before[lastOp.src]
         IN /\ lastOp.src \notin DOMAIN tagToSuperpixelMap
            /\ dstNow.mergedEdgeWeights =
                 dstBefore.mergedEdgeWeights \o srcBefore.mergedEdgeWeights
            /\ dstNow.unmergedEdgeWeights =
                 dstBefore.unmergedEdgeWeights \o srcBefore.unmergedEdgeWeights
    /\ \A t \in DOMAIN tagToSuperpixelMap : \A w \in EdgeWeights :
         /\ CountWeight(tagToSuperpixelMap[t].mergedEdgeWeights, w) =
              CountRecorded(strategy.recordedMerged, strategy.mergedInto[t], w)
         /\ CountWeight(tagToSuperpixelMap[t].unmergedEdgeWeights, w) =
              CountRecorded(strategy.recordedUnmerged, strategy.mergedInto[t], w)

\* a merge of two superpixels that both had weights recorded, different ones
C30_Witness ==
  /\ strategy.at = "record" /\ pc = "parsed" /\ lastOp.op = "mergeEdge"
  /\ strategy.before[lastOp.dst].mergedEdgeWeights # <<>>
  /\ strategy.before[lastOp.src].mergedEdgeWeights # <<>>
  /\ strategy.before[lastOp.dst].mergedEdgeWeights #
       strategy.before[lastOp.src].mergedEdgeWeights
  /\ Len(tagToSuperpixelMap[lastOp.dst].mergedEdgeWeights) = 2


\* mergeEdge has returned, on superpixels whose histories are on record
MergedRecorded ==
  strategy.at = "record" /\ pc = "parsed" /\ lastOp.op = "mergeEdge"

\* C31: mergeEdge leaves every superpixel other than src and dst in the
\* table with the coords and the weight histories it had, and the table has
\* one superpixel less than before the call: src is gone, nothing is added
C31_OtherRegionsUntouched ==
  MergedRecorded =>
    /\ {lastOp.src, lastOp.dst} = {lastOp.A, lastOp.B}
    /\ DOMAIN tagToSuperpixelMap = (DOMAIN strategy.before) \ {lastOp.src}
    /\ Cardinality(DOMAIN tagToSuperpixelMap) + 1 = Cardinality(DOMAIN strategy.before)
    /\ Range(superpixels) = DOMAIN tagToSuperpixelMap
    /\ \A t \in (DOMAIN strategy.before) \ {lastOp.src, lastOp.dst} :
         tagToSuperpixelMap[t] = strategy.before[t]

\* a merge next to a third superpixel that has coords and a weight history
C31_Witness ==
  /\ MergedRecorded
  /\ \E t \in (DOMAIN tagToSuperpixelMap) \ {lastOp.dst} :
       /\ tagToSuperpixelMap[t].mergedEdgeWeights # <<>>
       /\ Contains(lastOp.neighborsSrc, t)

\* mergeAlikeSuperpixels has merged an edge of maxTag
AlikeMerged ==
  /\ "dissimilar" \in DOMAIN strategy
  /\ strategy.step.did = "merge"

\* C32: in mergeAlikeSuperpixels maxTag is the first argument of every
\* mergeEdge it calls and has at least as many coords as the neighbor, so
\* after the call maxTag is in the table and the neighbor is not
C32_MaxTagSurvivesAlike ==
  AlikeMerged =>
    /\ pc = "parsed"
    /\ lastOp.op = "mergeEdge"
    /\ lastOp.A = strategy.maxTag
    /\ lastOp.B = strategy.step.minTuple[3]
    /\ lastOp.numCoordsA >= lastOp.numCoordsB
    /\ lastOp.dst = strategy.maxTag
    /\ strategy.maxTag \in ActiveTags
    /\ strategy.step.minTuple[3] \notin ActiveTags

\* maxTag merges a neighbor of its own size
C32_Witness ==
  /\ AlikeMerged
  /\ pc = "parsed"
  /\ lastOp.numCoordsA = lastOp.numCoordsB
  /\ strategy.maxTag \in ActiveTags

\* mergeBackprojectSuperpixels has merged an edge of maxTag
BackprojectMerged ==
  /\ "sortedSuperpixels" \in DOMAIN strategy
  /\ strategy.step.did = "merge"

\* C33: in mergeBackprojectSuperpixels, in the first pass and in the passes
\* after a lock clear, the neighbor maxTag merges with has no more coords
\* than maxTag when mergeEdge is called, so maxTag is dst, it is in the table
\* after the call and, when the call returns, the neighbor is not
C33_MaxTagSurvivesBackproject ==
  BackprojectMerged =>
    /\ lastOp.op = "mergeEdge"
    /\ lastOp.A = strategy.step.maxTag
    /\ lastOp.B = strategy.step.mergeNeighbor
    /\ lastOp.numCoordsA >= lastOp.numCoordsB
    /\ lastOp.dst = strategy.step.maxTag
    /\ lastOp.src = strategy.step.mergeNeighbor
    /\ strategy.step.maxTag \in ActiveTags
    /\ pc = "parsed" => strategy.step.mergeNeighbor \notin ActiveTags

\* a merge in a pass that follows a lock clear and a new sort
C33_Witness ==
  /\ BackprojectMerged
  /\ pc = "parsed"
  /\ strategy.numLockClear >= 1
  /\ strategy.step.maxTag \in ActiveTags

\* fillMergeBackprojectSuperpixels has called mergeEdge on the seed and a
\* region of the results of its search
FillMerged ==
  /\ "seeds" \in DOMAIN strategy
  /\ strategy.step.did = "merge"

\* in the label image as parse numbered it, a pixel of A is among the 8
\* pixels around a pixel of B
TouchedAtParse(A, B) ==
  \E p \in Coords, q \in Coords :
    Vec3BToUID(tags[p]) = A /\ Vec3BToUID(tags[q]) = B /\ Adjacent8(p, q)

\* C34: every mergeEdge of fillMergeBackprojectSuperpixels is called on the
\* seed and a region that is a neighbor of the seed at that moment, the seed
\* has at least as many coords and is the one that is kept, the region is
\* erased, and no assert of mergeEdge fails in the run
C34_FillMergesNeighbors ==
  /\ "seeds" \in DOMAIN strategy => pc = "parsed"
  /\ FillMerged =>
       /\ lastOp.op = "mergeEdge"
       /\ strategy.step.adjacent
       /\ Contains(lastOp.neighborsDst, strategy.step.mergeNeighbor)
       /\ lastOp.A = strategy.step.maxTag
       /\ lastOp.numCoordsA >= lastOp.numCoordsB
       /\ lastOp.dst = strategy.step.maxTag
       /\ lastOp.src = strategy.step.mergeNeighbor
       /\ strategy.step.maxTag \in ActiveTags
       /\ strategy.step.mergeNeighbor \notin ActiveTags

\* the seed has merged a region that did not touch it in the parsed image
C34_Witness ==
  /\ FillMerged
  /\ pc = "parsed"
  /\ ~TouchedAtParse(strategy.step.maxTag, strategy.step.mergeNeighbor)
  /\ strategy.step.mergeNeighbor \notin ActiveTags

\* the regions of the table that carry no lock; a key of the table of
\* locks that holds false is no lock
UnlockedActive ==
  IF "unset" \in DOMAIN strategy
  THEN ActiveTags \ (locked \ strategy.unset)
  ELSE ActiveTags \ locked

\* the strategies whose loops select a region, merge and lock
InSelectLoop ==
  strategy.at \in {"select", "grow", "scan", "backproject", "mergeEach",
                   "smallest", "shrink", "seed", "search", "fill"}

\* the work left at a position of a loop before the next merge or lock
PositionRank ==
  CASE strategy.at \in {"select", "smallest", "seed", "backproject"} -> 2
    [] strategy.at \in {"grow", "scan", "mergeEach"} -> 1
    [] strategy.at = "shrink" ->
         IF strategy.minTag \in locked \/ getSuperpixelPtr(strategy.minTag) = NULL
         THEN 3 ELSE 1
    [] strategy.at = "search" -> IF strategy.maxTag \in locked THEN 3 ELSE 1
    [] OTHER -> 0

\* the entries of the sorted vector that the scan has not passed
ScanRank ==
  IF "sortedSuperpixels" \in DOMAIN strategy
  THEN Len(strategy.sortedSuperpixels) + 1 - strategy.spIter
  ELSE 0

\* 1 when a merge was noted since the last lock clear
ClearRank ==
  IF "mergesSinceLockClear" \in DOMAIN strategy /\ strategy.mergesSinceLockClear # {}
  THEN 1 ELSE 0

\* the measure of the work left: the number of regions, then the lock clear
\* that is due, then the regions without a lock and the entries to scan,
\* then the position
StrategyRank ==
  256 * Cardinality(ActiveTags) + 128 * ClearRank
    + 16 * Cardinality(UnlockedActive) + 3 * ScanRank + PositionRank

\* C35: GreedyLargestFirst, BreadthFirstBackproject, DepthFirstFloodFill and
\* SmallestFirst terminate: every step of their loops lowers a measure that
\* is never negative, made of the number of active regions (lowered by a
\* merge), the lock clear that is due, the number of regions without a lock
\* (lowered by a lock) and the position in the scan; and a lock clear
\* happens only when a merge was noted since the previous clear
C35_StrategiesTerminate ==
  [][(pc = "parsed" /\ InSelectLoop /\ pc' = "parsed")
       => /\ StrategyRank' < StrategyRank
          /\ StrategyRank' >= 0
          /\ (strategy'.step.did = "clear" =>
                /\ strategy.mergesSinceLockClear # {}
                /\ strategy'.mergesSinceLockClear = {}
                /\ Cardinality(ActiveTags) < Cardinality(DOMAIN strategy.start))]_vars

\* a run of BreadthFirstBackproject has returned after a merge, a lock
\* clear and a second scan that locked every region
C35_Witness ==
  /\ Returned
  /\ "sortedSuperpixels" \in DOMAIN strategy
  /\ strategy.numLockClear >= 1
  /\ Cardinality(ActiveTags) >= 2
  /\ UnlockedActive = {}

\* the strategy is mergeBackprojectSmallestSuperpixels and runs without a
\* failed assert
SmallestRuns == pc = "parsed" /\ "doLockMaxTag" \in DOMAIN strategy

\* the lock clear of mergeBackprojectSmallestSuperpixels has just run
SmallestCleared == SmallestRuns /\ strategy.step.did = "clear"

\* the merge of the last step was one of two regions of the same count
TieMerged ==
  /\ SmallestMerged
  /\ strategy.step.numCoordsMin = strategy.step.numCoordsNeighbor

ResultTags(results) == {results[i][3] : i \in 1..Len(results)}

\* C37: in mergeEdgySuperpixels every key of edgySuperpixelsTable is a
\* region of the table of superpixels, so the tag taken from it and the
\* neighbors it is compared with are; and a merge takes out of
\* edgySuperpixelsTable the key of the region that was merged away, be it
\* the tag taken or its neighbor, and no other key
C37_EdgyKeysAreLive ==
  (EdgyRun /\ pc = "parsed") =>
    /\ strategy.edgySuperpixelsTable \subseteq ActiveTags
    /\ strategy.at = "edgyMerge" =>
         /\ strategy.tag \in strategy.edgySuperpixelsTable
         /\ ResultTags(strategy.results) \subseteq strategy.edgySuperpixelsTable
    /\ strategy.step.did \in {"erase", "results"} =>
         strategy.tag \in strategy.step.activeBefore
    /\ strategy.step.did = "merge" =>
         /\ lastOp.op = "mergeEdge"
         /\ {lastOp.src, lastOp.dst} = {strategy.step.tag, strategy.step.mergeNeighbor}
         /\ {lastOp.src, lastOp.dst} \subseteq strategy.step.table
         /\ lastOp.src \notin ActiveTags
         /\ strategy.edgySuperpixelsTable = strategy.step.table \ {lastOp.src}

\* the tag taken from the table has absorbed a neighbor, whose key was
\* erased, and was then merged away itself in the same pass, and its key
\* was erased
C37_Witness ==
  /\ EdgyRun
  /\ pc = "parsed"
  /\ strategy.step.did = "merge"
  /\ lastOp.src = strategy.step.tag
  /\ strategy.numPasses = 1
  /\ Cardinality(strategy.step.table) < Cardinality(strategy.flagged)
  /\ strategy.edgySuperpixelsTable # {}

\* mergeSmallSuperpixels is the traversal under way or the one that returned
SmallRun == "worklist" \in DOMAIN strategy /\ "it" \in DOMAIN strategy /\ ~("allSame" \in DOMAIN strategy)

\* the number of pixels of the image
TotalCoords == SumCoords(ActiveTags)

\* the tags of the work list from the iterator on
WorklistAhead ==
  {strategy.worklist[i] : i \in strategy.it..Len(strategy.worklist)}

\* the measure of the work left to mergeSmallSuperpixels: the regions of the
\* table, then the entries of the work list ahead, then the return
SmallRank ==
  (Len(strategy.worklist) + 2) * Cardinality(ActiveTags)
    + (Len(strategy.worklist) + 1 - strategy.it)
    + (IF strategy.at = "small" THEN 1 ELSE 0)

\* C38: mergeSmallSuperpixels terminates, as every pass of its loop merges
\* two regions or moves on in the work list; on an image of at least
\* MaxSmallNumPixelsVal pixels no assert fails and no vector is read out of
\* its bounds, and when it returns every region of the table has at least
\* MaxSmallNumPixelsVal coords; and every region of fewer coords, such as
\* the survivor of a merge that is still small, is ahead in the work list
C38_SmallMergedAway ==
  [][(pc = "parsed" /\ SmallRun /\ strategy.at = "small") =>
       /\ pc' = "parsed" =>
            /\ SmallRank' < SmallRank
            /\ SmallRank' >= 0
            /\ \A t \in ActiveTags' :
                 NumCoords(t)' < MaxSmallNumPixelsVal => t \in WorklistAhead'
       /\ TotalCoords >= MaxSmallNumPixelsVal =>
            /\ pc' = "parsed"
            /\ strategy'.at = "done" =>
                 \A t \in ActiveTags' : NumCoords(t)' >= MaxSmallNumPixelsVal]_vars

\* mergeSmallSuperpixels has returned on an image of at least
\* MaxSmallNumPixelsVal pixels: the first region of the work list was
\* merged into the second one, its only neighbor, which was small as well,
\* was taken from the work list after it and is in the table at the return
C38_Witness ==
  /\ pc = "parsed"
  /\ SmallRun
  /\ strategy.at = "done"
  /\ Len(strategy.worklist) >= 2
  /\ strategy.worklist[1] = 1
  /\ strategy.worklist[2] = 2
  /\ 1 \notin ActiveTags
  /\ 2 \in ActiveTags
  /\ NumCoords(2) >= MaxSmallNumPixelsVal

\* a pass of the inner loop of mergeAlikeSuperpixels has compared maxTag,
\* whose entry of histWeights was empty, with at least one unlocked neighbor
FirstCompare ==
  /\ "dissimilar" \in DOMAIN strategy
  /\ StepDone
  /\ strategy.step.weights = <<>>
  /\ strategy.step.results # {}

\* C39: in mergeAlikeSuperpixels a region whose entry of histWeights is
\* empty and that has an unlocked neighbor is merged with the neighbor of
\* results[0], of whatever weight, and that neighbor is merged away; the
\* weight is appended to the entry of the region unless it is 0, so no
\* entry of histWeights ever holds a 0
C39_FirstMergeUnconditional ==
  /\ FirstCompare =>
       LET st == strategy.step
       IN /\ pc = "parsed"
          /\ st.did = "merge"
          /\ st.within
          /\ st.minTuple \in st.results
          /\ \A u \in st.results : ~CompareNeighborTupleFunc(u, st.minTuple)
          /\ lastOp.op = "mergeEdge"
          /\ lastOp.A = strategy.maxTag
          /\ lastOp.B = st.minTuple[3]
          /\ strategy.maxTag \in ActiveTags
          /\ st.minTuple[3] \notin ActiveTags
          /\ strategy.maxTag \notin locked
          /\ histWeights[strategy.maxTag] =
               IF st.minTuple[1] = 0 THEN <<>> ELSE <<st.minTuple[1]>>
  /\ \A t \in DOMAIN histWeights :
       \A i \in 1..Len(histWeights[t]) : histWeights[t][i] # 0

\* a region was merged with a neighbor at a weight above 0.5 when its
\* history was empty, after its merge with another neighbor at weight 0
C39_Witness ==
  /\ FirstCompare
  /\ strategy.step.minTuple[1] > StrongEdgeWeight
  /\ strategy.step.sizesBefore[strategy.maxTag] > strategy.start[strategy.maxTag]

\* mergeBredthFirstRecursive is the traversal under way
BredthFirstRuns == pc = "parsed" /\ "edgeWeightSortedTuples" \in DOMAIN strategy

\* the neighbors of the results whose rounded percentage is the highest one
HighestBinTags(resultTuples) ==
  {t[3] : t \in {u \in Range(resultTuples) :
                   \A v \in Range(resultTuples) : v[1] <= u[1]}}

\* the tags whose entry in the table of locks holds true
LockedTrue == locked \ strategy.unset

\* C40: in mergeBredthFirstRecursive an edge is accepted and merged only
\* when its neighbor is in the bin of the highest rounded percentage of the
\* last back projection and no edge was rejected in this visit; when
\* shouldMergeEdge rejects an edge maxTag is locked and the weight put aside;
\* from then on every step of the visit leaves the regions as they are and
\* puts the weight of the next edge of the bin aside, and after the last one
\* the weights put aside are added to the unmerged weights of maxTag and
\* the visit ends; a locked region is not selected again
C40_FirstBinUntilRejected ==
  [][BredthFirstRuns =>
       /\ strategy'.at = "bredthMerge" =>
            /\ strategy.at = "bredthBin"
            /\ strategy.unmergedEdgeWeights = <<>>
            /\ strategy.maxTag \notin LockedTrue
            /\ strategy'.mergeNeighbor \in HighestBinTags(strategy.resultTuples)
       /\ lastOp'.op = "mergeEdge" =>
            /\ strategy.at = "bredthMerge"
            /\ lastOp'.A = strategy.maxTag
            /\ lastOp'.B = strategy.mergeNeighbor
            /\ lastOp'.B \in HighestBinTags(strategy.resultTuples)
       /\ strategy'.step.did = "reject" =>
            /\ strategy.maxTag \in LockedTrue'
            /\ strategy'.unmergedEdgeWeights = <<Head(strategy.edgeWeightSortedTuples)[1]>>
            /\ strategy'.at = "bredthBin"
            /\ UNCHANGED storeVars
       /\ (strategy.at = "bredthBin" /\ strategy.unmergedEdgeWeights # <<>>) =>
            /\ strategy.maxTag \in LockedTrue
            /\ UNCHANGED <<tags, superpixels, neighbors, edgeStrengthMap, pc, locked>>
            /\ ActiveTags' = ActiveTags
            /\ \A t \in ActiveTags : NumCoords(t)' = NumCoords(t)
            /\ IF strategy.edgeWeightSortedTuples # <<>>
               THEN /\ strategy'.at = "bredthBin"
                    /\ strategy'.unmergedEdgeWeights =
                         Append(strategy.unmergedEdgeWeights,
                                Head(strategy.edgeWeightSortedTuples)[1])
                    /\ strategy'.edgeWeightSortedTuples = Tail(strategy.edgeWeightSortedTuples)
                    /\ UNCHANGED tagToSuperpixelMap
               ELSE /\ strategy'.at = "bredthScan"
                    /\ tagToSuperpixelMap'[strategy.maxTag].unmergedEdgeWeights =
                         tagToSuperpixelMap[strategy.maxTag].unmergedEdgeWeights
                           \o strategy.unmergedEdgeWeights
       /\ strategy'.step.did = "select" => strategy'.maxTag \notin LockedTrue]_vars

\* a visit has ended after shouldMergeEdge rejected an edge of the bin: the
\* region is locked and the weights of the rejected edge and of the edge
\* that was left in the bin were added to its unmerged weights
C40_Witness ==
  /\ BredthFirstRuns
  /\ strategy.step.did = "strong"
  /\ Len(strategy.step.unmergedEdgeWeights) >= 2
  /\ strategy.maxTag \in LockedTrue
  /\ Cardinality(ActiveTags) = Cardinality(strategy.step.activeBefore)
====
